---- MODULE Spec2Model ----
(***************************************************************************)
(* A model of wthisj.PunchingShearSection (src/wthisj/punchingshearsection *)
(* .py): the discretised punching-shear perimeter, its geometric           *)
(* properties, its mutations (add_perimeter, add_opening, rotate) and the  *)
(* elastic solver solve().                                                 *)
(*                                                                         *)
(* Numbers.  The program computes in IEEE doubles.  The model computes in  *)
(* exact arithmetic over the field Q(sqrt 2), extended with the IEEE       *)
(* non-finite values: a number is a pair <<r, s>> of rationals standing    *)
(* for r + s*sqrt(2), a rational is a pair <<n, d>> in lowest terms with   *)
(* d > 0, and NaN, +Inf, -Inf are <<<<0,0>>, 0>>, <<<<1,0>>, 0>> and       *)
(* <<<<-1,0>>, 0>>.  Q(sqrt 2) is what 45-degree rotations and the         *)
(* diagonal stud-rail segments need; rounding error is not modelled.       *)
(*                                                                         *)
(* Angles.  An angle in (-90, 90) degrees is carried by its tangent, so    *)
(* theta_p = 45 is the number 1 and theta_p = 0 is the number 0.           *)
(***************************************************************************)
EXTENDS Integers, Sequences, FiniteSets, TLC

(***************************************************************************)
(* Integers and rationals                                                  *)
(***************************************************************************)
IAbs(n) == IF n < 0 THEN -n ELSE n

ISign(n) == IF n < 0 THEN -1 ELSE IF n > 0 THEN 1 ELSE 0

RECURSIVE GCD(_, _)
GCD(a, b) == IF b = 0 THEN a ELSE GCD(b, a % b)

\* the rational n/d (d # 0) in lowest terms with a positive denominator
Q(n, d) ==
    LET g == GCD(IAbs(n), IAbs(d))
    IN  IF d < 0 THEN <<-(n \div g), (-d) \div g>> ELSE <<n \div g, d \div g>>

RZero == <<0, 1>>

RNeg(a) == <<-a[1], a[2]>>

\* a + b; two odd numerators over an even denominator are halved before they
\* are added, which keeps the sum within the integers of the checker
RAdd(a, b) ==
    IF a[1] = 0 THEN b
    ELSE IF b[1] = 0 THEN a
    ELSE LET g == GCD(a[2], b[2])
             x == a[1] * (b[2] \div g)
             y == b[1] * (a[2] \div g)
             d == (a[2] \div g) * b[2]
         IN  IF x % 2 = 1 /\ y % 2 = 1 /\ d % 2 = 0
             THEN Q((x \div 2) + (y \div 2) + 1, d \div 2)
             ELSE Q(x + y, d)

RMul(a, b) ==
    IF a[1] = 0 \/ b[1] = 0 THEN RZero
    ELSE LET g1 == GCD(IAbs(a[1]), b[2])
             g2 == GCD(IAbs(b[1]), a[2])
         IN  <<(a[1] \div g1) * (b[1] \div g2), (a[2] \div g2) * (b[2] \div g1)>>

\* 1/a for a # 0
RInv(a) == IF a[1] < 0 THEN <<-a[2], -a[1]>> ELSE <<a[2], a[1]>>

\* a < b for non-negative rationals, by continued fractions (no products)
RECURSIVE RLtPos(_, _)
RLtPos(a, b) ==
    LET qa == a[1] \div a[2]
        qb == b[1] \div b[2]
        ra == a[1] % a[2]
        rb == b[1] % b[2]
    IN  IF qa # qb THEN qa < qb
        ELSE IF rb = 0 THEN FALSE
        ELSE IF ra = 0 THEN TRUE
        ELSE RLtPos(<<b[2], rb>>, <<a[2], ra>>)

RLt(a, b) ==
    IF a[1] < 0 /\ b[1] >= 0 THEN TRUE
    ELSE IF a[1] >= 0 /\ b[1] < 0 THEN FALSE
    ELSE IF a[1] >= 0 THEN RLtPos(a, b)
    ELSE RLtPos(RNeg(b), RNeg(a))

RAbs(a) == <<IAbs(a[1]), a[2]>>

(***************************************************************************)
(* The operations on numbers and the methods of the class are written once *)
(* each, under the names Python gives them (add, mul, div, lt, abs, sqrt,  *)
(* ..., add_perimeter, update_properties, rotate, solve), and are called   *)
(* through Apply under the capitalised names below, so that TLC builds one *)
(* evaluation tree for them all.                                           *)
(***************************************************************************)
RECURSIVE Apply(_, _)

Sign(x) == Apply("sign", <<x>>)

Add(x, y) == Apply("add", <<x, y>>)

Mul(x, y) == Apply("mul", <<x, y>>)

Inv(y) == Apply("inv", <<y>>)

Div(x, y) == Apply("div", <<x, y>>)

Lt(x, y) == Apply("lt", <<x, y>>)

Abs(x) == Apply("abs", <<x>>)

Sqrt(x) == Apply("sqrt", <<x>>)

FloorDiv(x, y) == Apply("floordiv", <<x, y>>)

IsClose(a, b) == Apply("isclose", <<a, b>>)

AddPerimeter(per, start, end, depth, PATCH_SIZE) == Apply("add_perimeter", <<per, start, end, depth, PATCH_SIZE>>)

UpdateProperties(per, props) == Apply("update_properties", <<per, props>>)

RotatePatches(per, t) == Apply("rotate", <<per, t>>)

Solve(a, per, pr, ap, ecp, vm, df, c) == Apply("solve", <<a, per, pr, ap, ecp, vm, df, c>>)

AddOpening(per, xo, yo, width, depth) == Apply("add_opening", <<per, xo, yo, width, depth>>)

AuxGeometry(a) == Apply("aux_geometry", <<a>>)

OpeningAdded(aux, xo, yo, width, depth) == Apply("opening_added", <<aux, xo, yo, width, depth>>)

RotatePoints(pts, c, s) == Apply("rotate_points", <<pts, c, s>>)

RotateAux(aux, t) == Apply("rotate_aux", <<aux, t>>)

SolveAux(a, per, pr, aux, c) == Apply("solve_aux", <<a, per, pr, aux, c>>)

AutoGeneratePerimeters(a) == Apply("auto_generate_perimeters", <<a>>)

(***************************************************************************)
(* Numbers: Q(sqrt 2) with the IEEE non-finite values.  Division by zero   *)
(* of numpy scalars does not raise: it yields nan or +-inf (the perimeter  *)
(* columns hold numpy.float64 values, lines 171-186).                      *)
(***************************************************************************)
NaN == <<(<<0, 0>>), RZero>>

PInf == <<(<<1, 0>>), RZero>>

NInf == <<(<<-1, 0>>), RZero>>

IsFinite(x) == x[1][2] # 0

IsNaN(x) == x[1] = <<0, 0>>

\* the integer n, and the fraction n/d, as numbers
N(n) == <<(<<n, 1>>), RZero>>

Frac(n, d) == <<Q(n, d), RZero>>

Zero == N(0)

\* x is a rational number (no sqrt(2) part)
IsRat(x) == IsFinite(x) /\ x[2][1] = 0

\* the integer part of 1000 * a for a rational a >= 0
Milli(a) == (a[1] \div a[2]) * 1000 + ((a[1] % a[2]) * 1000) \div a[2]

\* 1000 * |s| * sqrt(2) for a rational s, to within 2 + |s| / 4
MilliRoot2(s) ==
    LET m == Milli(RAbs(s))
    IN  (m \div 1000) * 1414 + ((m % 1000) * 1414) \div 1000

\* n/d > k + 1/(2 + 1/(2 + ...)) for naturals n, d > 0, by continued fractions
\* (no products): sqrt(2) is the case k = 1, 1 + sqrt(2) the case k = 2
RECURSIVE GtRoot(_, _, _)
GtRoot(n, d, k) ==
    IF n \div d # k THEN n \div d > k
    ELSE IF n % d = 0 THEN FALSE
    ELSE ~GtRoot(d, n % d, 2)

\* whether |r| > |s| * sqrt(2) for rationals r, s with s # 0
RDominates(r, s) ==
    LET mr  == Milli(RAbs(r))
        ms  == MilliRoot2(s)
        tol == 4 + ms \div 2000
        q   == RMul(RAbs(r), RInv(RAbs(s)))
    IN  IF mr > ms + tol THEN TRUE
        ELSE IF mr + tol < ms THEN FALSE
        ELSE GtRoot(q[1], q[2], 1)

\* the sign (-1, 0, 1) of a number that is not NaN
sign(x) ==
    IF ~IsFinite(x) THEN x[1][1]
    ELSE LET sr == ISign(x[1][1])
             ss == ISign(x[2][1])
         IN  IF ss = 0 THEN sr
             ELSE IF sr = 0 \/ sr = ss THEN ss
             ELSE IF RDominates(x[1], x[2]) THEN sr ELSE ss

Neg(x) == IF IsFinite(x) THEN <<RNeg(x[1]), RNeg(x[2])>> ELSE <<(<<-x[1][1], 0>>), RZero>>

add(x, y) ==
    IF IsNaN(x) \/ IsNaN(y) THEN NaN
    ELSE IF ~IsFinite(x) /\ ~IsFinite(y) THEN (IF x = y THEN x ELSE NaN)
    ELSE IF ~IsFinite(x) THEN x
    ELSE IF ~IsFinite(y) THEN y
    ELSE <<RAdd(x[1], y[1]), RAdd(x[2], y[2])>>

Sub(x, y) == Add(x, Neg(y))

mul(x, y) ==
    IF IsNaN(x) \/ IsNaN(y) THEN NaN
    ELSE IF ~IsFinite(x) \/ ~IsFinite(y)
         THEN (IF Sign(x) * Sign(y) = 0 THEN NaN
               ELSE IF Sign(x) * Sign(y) > 0 THEN PInf ELSE NInf)
    ELSE IF x[2][1] = 0 /\ y[2][1] = 0 THEN <<RMul(x[1], y[1]), RZero>>
    ELSE <<RAdd(RMul(x[1], y[1]), RMul(<<2, 1>>, RMul(x[2], y[2]))),
           RAdd(RMul(x[1], y[2]), RMul(x[2], y[1]))>>

\* 1/y for a finite y # 0: (r - s*sqrt 2) / (r^2 - 2 s^2)
inv(y) ==
    IF y[2][1] = 0 THEN <<RInv(y[1]), RZero>>
    ELSE LET den == RAdd(RMul(y[1], y[1]), RNeg(RMul(<<2, 1>>, RMul(y[2], y[2]))))
         IN  <<RMul(y[1], RInv(den)), RNeg(RMul(y[2], RInv(den)))>>

\* IEEE division (numpy scalars): x/0 is nan or +-inf, never an exception
div(x, y) ==
    IF IsNaN(x) \/ IsNaN(y) THEN NaN
    ELSE IF ~IsFinite(y) THEN (IF IsFinite(x) THEN Zero ELSE NaN)
    ELSE IF Sign(y) = 0
         THEN (IF Sign(x) = 0 THEN NaN ELSE IF Sign(x) > 0 THEN PInf ELSE NInf)
    ELSE IF ~IsFinite(x) THEN (IF Sign(x) * Sign(y) > 0 THEN PInf ELSE NInf)
    ELSE Mul(x, Inv(y))

\* 1000 * x for a finite number x, to within 4 + |x| / 2
MilliApprox(x) ==
    ISign(x[1][1]) * Milli(RAbs(x[1])) + ISign(x[2][1]) * MilliRoot2(x[2])

MilliTol(x) == 4 + (Milli(RAbs(x[1])) + MilliRoot2(x[2])) \div 2000

\* x < y as IEEE compares: FALSE whenever a NaN is involved
lt(x, y) ==
    IF IsNaN(x) \/ IsNaN(y) \/ x = y THEN FALSE
    ELSE IF ~IsFinite(x) THEN Sign(x) < 0
    ELSE IF ~IsFinite(y) THEN Sign(y) > 0
    ELSE IF x[2][1] = 0 /\ y[2][1] = 0 THEN RLt(x[1], y[1])
    ELSE IF MilliApprox(x) + MilliTol(x) < MilliApprox(y) - MilliTol(y) THEN TRUE
    ELSE IF MilliApprox(y) + MilliTol(y) < MilliApprox(x) - MilliTol(x) THEN FALSE
    ELSE Sign(Sub(x, y)) < 0

Gt(x, y) == Lt(y, x)

Le(x, y) == ~IsNaN(x) /\ ~IsNaN(y) /\ (x = y \/ Lt(x, y))

\* abs()
abs(x) == IF IsNaN(x) THEN NaN ELSE IF Sign(x) < 0 THEN Neg(x) ELSE x

Sq(x) == Mul(x, x)

Half(x) == Mul(x, Frac(1, 2))

(***************************************************************************)
(* Square root and floor.  Sqrt is exact on the squares of Q(sqrt 2) that  *)
(* the geometry produces (q^2, 2 q^2 and q^2 / 2 for a rational q) and is  *)
(* rounded down to two decimals elsewhere, where the program rounds to a   *)
(* double.                                                                 *)
(***************************************************************************)
RECURSIVE ISqrtIn(_, _, _)
ISqrtIn(n, lo, hi) ==
    IF hi - lo <= 1 THEN lo
    ELSE LET mid == (lo + hi) \div 2
         IN  IF mid * mid <= n THEN ISqrtIn(n, mid, hi) ELSE ISqrtIn(n, lo, mid)

\* floor of the square root of the natural number n
ISqrt(n) == ISqrtIn(n, 0, (IF n < 46340 THEN n ELSE 46340) + 1)

IsSquare(n) == n >= 0 /\ ISqrt(n) * ISqrt(n) = n

\* the root of a finite number x >= 0 that has no exact root in Q(sqrt 2),
\* rounded down to a multiple of 1/100
SqrtDown(x) == <<Q(ISqrt(MilliApprox(x) * 10), 100), RZero>>

sqrt(x) ==
    IF ~IsFinite(x) THEN (IF x = PInf THEN PInf ELSE NaN)
    ELSE IF Sign(x) < 0 THEN NaN
    ELSE IF IsRat(x) /\ IsSquare(x[1][1]) /\ IsSquare(x[1][2])
         THEN <<Q(ISqrt(x[1][1]), ISqrt(x[1][2])), RZero>>
    ELSE IF IsRat(x) /\ IsSquare(2 * x[1][1]) /\ IsSquare(x[1][2])
         THEN <<RZero, Q(ISqrt(2 * x[1][1]), 2 * ISqrt(x[1][2]))>>
    ELSE IF IsRat(x) /\ IsSquare(x[1][1]) /\ IsSquare(2 * x[1][2])
         THEN <<RZero, Q(ISqrt(x[1][1]), ISqrt(2 * x[1][2]))>>
    ELSE SqrtDown(x)

\* int(x // y) for finite x >= 0 and y > 0
floordiv(x, y) ==
    LET q  == Div(x, y)
        k0 == MilliApprox(q) \div 1000
    IN  IF Lt(q, N(k0)) THEN k0 - 1
        ELSE IF Le(N(k0 + 1), q) THEN k0 + 1
        ELSE k0

(***************************************************************************)
(* Lists of numbers: sum(), max(), min()                                   *)
(***************************************************************************)
\* sum(s): the elements added left to right, 0 for the empty list
RECURSIVE SumUpTo(_, _)
SumUpTo(s, n) == IF n = 0 THEN Zero ELSE Add(SumUpTo(s, n - 1), s[n])

Sum(s) == SumUpTo(s, Len(s))

\* max(s) and min(s) of a non-empty list, as Python scans it: the running
\* value m is replaced by a later element that compares greater (smaller)
RECURSIVE MaxFrom(_, _, _)
MaxFrom(s, i, m) ==
    IF i > Len(s) THEN m
    ELSE IF Gt(s[i], m) THEN MaxFrom(s, i + 1, s[i]) ELSE MaxFrom(s, i + 1, m)

Max(s) == MaxFrom(s, 2, s[1])

RECURSIVE MinFrom(_, _, _)
MinFrom(s, i, m) ==
    IF i > Len(s) THEN m
    ELSE IF Lt(s[i], m) THEN MinFrom(s, i + 1, s[i]) ELSE MinFrom(s, i + 1, m)

Min(s) == MinFrom(s, 2, s[1])

\* max(s, key=abs)
RECURSIVE MaxAbsFrom(_, _, _)
MaxAbsFrom(s, i, m) ==
    IF i > Len(s) THEN m
    ELSE IF Gt(Abs(s[i]), Abs(m)) THEN MaxAbsFrom(s, i + 1, s[i])
    ELSE MaxAbsFrom(s, i + 1, m)

MaxAbs(s) == MaxAbsFrom(s, 2, s[1])

\* [f(a, b) for a, b in zip(s, t)] for the products the properties need
Zip2(s, t, Op(_, _)) == [i \in 1..Len(s) |-> Op(s[i], t[i])]

(***************************************************************************)
(* The perimeter table: a dict of parallel lists, one entry per patch.     *)
(***************************************************************************)
GeometryColumns ==
    {"x_centroid", "y_centroid", "x_start", "y_start", "x_end", "y_end",
     "depth", "length", "area"}

ResultColumns == {"v_axial", "v_Mx", "v_My", "v_total", "Fz", "Mxi", "Myi"}

Columns == GeometryColumns \cup ResultColumns

\* self.perimeter as __init__ leaves it
EmptyPerimeter == [c \in Columns |-> <<>>]

\* the number of patches, as the loops of the program count it
NPatches(per) == Len(per["x_centroid"])

\* np.linalg.norm(end - start) for points <<x, y>>
Norm(start, end) == Sqrt(Add(Sq(Sub(end[1], start[1])), Sq(Sub(end[2], start[2]))))

\* Segments with the count rounded up: one patch more on a long segment
SegmentsRoundedUp(length_line, PATCH_SIZE) ==
    IF Gt(length_line, PATCH_SIZE) THEN FloorDiv(length_line, PATCH_SIZE) + 1 ELSE 1

\* int(length_line // PATCH_SIZE) if length_line > PATCH_SIZE else 1
Segments(length_line, PATCH_SIZE) ==
    IF Gt(length_line, PATCH_SIZE) THEN FloorDiv(length_line, PATCH_SIZE) ELSE 1

\* Ends as np.linspace(0, 1, segments + 1, endpoint=False) would give them:
\* the last point falls short of b
EndsShort(a, b, segments) ==
    [i \in 1..(segments + 1) |-> Add(a, Mul(Frac(i - 1, segments + 1), Sub(b, a)))]

\* a + np.linspace(0, 1, segments + 1) * (b - a)
Ends(a, b, segments) ==
    [i \in 1..(segments + 1) |-> Add(a, Mul(Frac(i - 1, segments), Sub(b, a)))]

\* [(ends[i] + ends[i+1]) / 2 for i in range(len(ends) - 1)]
Centers(ends) == [i \in 1..(Len(ends) - 1) |-> Half(Add(ends[i], ends[i + 1]))]

\* the patches between the end points appended to the nine geometry lists
AppendPatches(per, x_ends, y_ends, segments, length_segments, depth) ==
    [per EXCEPT
        !["x_centroid"] = @ \o Centers(x_ends),
        !["y_centroid"] = @ \o Centers(y_ends),
        !["x_start"] = @ \o SubSeq(x_ends, 1, segments),
        !["y_start"] = @ \o SubSeq(y_ends, 1, segments),
        !["x_end"] = @ \o SubSeq(x_ends, 2, segments + 1),
        !["y_end"] = @ \o SubSeq(y_ends, 2, segments + 1),
        !["length"] = @ \o [i \in 1..segments |-> length_segments],
        !["depth"] = @ \o [i \in 1..segments |-> depth],
        !["area"] = @ \o [i \in 1..segments |-> Mul(depth, length_segments)]]

\* the segment of length length_line cut into segments patches
Discretize(per, start, end, depth, length_line, segments) ==
    AppendPatches(per, Ends(start[1], end[1], segments), Ends(start[2], end[2], segments),
                  segments, Div(length_line, N(segments)), depth)

\* add_perimeter(start, end, depth): the table with the segment's patches
\* appended; start and end are points <<x, y>>
AddPerimeterOfLength(per, start, end, depth, PATCH_SIZE, length_line) ==
    Discretize(per, start, end, depth, length_line, Segments(length_line, PATCH_SIZE))

add_perimeter(per, start, end, depth, PATCH_SIZE) ==
    AddPerimeterOfLength(per, start, end, depth, PATCH_SIZE, Norm(start, end))

(***************************************************************************)
(* Geometric properties: update_properties()                               *)
(***************************************************************************)
\* Python's None
None == <<>>

\* the attributes update_properties() sets, as __init__ leaves them
NoProperties ==
    [x_centroid |-> None, y_centroid |-> None, L |-> None, A |-> None,
     Ix |-> None, Iy |-> None, Iz |-> None, Ixy |-> None, theta_p |-> None,
     Sx1 |-> None, Sx2 |-> None, Sy1 |-> None, Sy2 |-> None]

\* math.isclose(a, b, abs_tol=1e-6), with its default rel_tol=1e-9
isclose(a, b) ==
    IF IsNaN(a) \/ IsNaN(b) THEN FALSE
    ELSE IF a = b THEN TRUE
    ELSE IF ~IsFinite(a) \/ ~IsFinite(b) THEN FALSE
    ELSE LET diff == Abs(Sub(a, b))
         IN  \/ Le(diff, <<(<<1, 1000000>>), RZero>>)
             \/ Le(Div(diff, Abs(a)), <<(<<1, 1000000000>>), RZero>>)
             \/ Le(Div(diff, Abs(b)), <<(<<1, 1000000000>>), RZero>>)

\* the angle atan(r)/2, as its tangent: tan(atan(r)/2) = r / (1 + sqrt(1 + r^2)),
\* which is r/2 to within r^3/8 and is taken as r/2 for |r| <= 1/1000
HalfAtan(r) ==
    IF IsNaN(r) THEN NaN
    ELSE IF ~IsFinite(r) THEN N(Sign(r))
    ELSE IF Le(Abs(r), Frac(1, 1000)) THEN Half(r)
    ELSE Div(r, Add(N(1), Sqrt(Add(N(1), Sq(r)))))

\* PrincipalAngle with both tests made on the absolute difference alone:
\* |Ixy| <= 1e-6, then |Ix - Iy| <= 1e-6
PrincipalAngleAbsolute(Ix, Iy, Ixy) ==
    IF Le(Abs(Ixy), Frac(1, 1000000)) THEN Zero
    ELSE IF Le(Abs(Sub(Ix, Iy)), Frac(1, 1000000)) THEN N(1)
    ELSE HalfAtan(Div(Ixy, Half(Sub(Ix, Iy))))

\* PrincipalAngle with theta_p = 0 where Ix and Iy are close
PrincipalAngleCloseAsZero(Ix, Iy, Ixy) ==
    IF IsClose(Ixy, Zero) THEN Zero
    ELSE IF IsClose(Ix, Iy) THEN Zero
    ELSE HalfAtan(Div(Ixy, Half(Sub(Ix, Iy))))

\* theta_p by Mohr's circle (lines 759-766); 45 degrees is the tangent 1
PrincipalAngle(Ix, Iy, Ixy) ==
    IF IsClose(Ixy, Zero) THEN Zero
    ELSE IF IsClose(Ix, Iy) THEN N(1)
    ELSE HalfAtan(Div(Ixy, Half(Sub(Ix, Iy))))

\* sum(w * (c - c0)^2) and sum(w * (c - c0) * (e - e0)) over the patches
SecondMoment(w, c, c0) == Sum([i \in 1..Len(c) |-> Mul(w[i], Sq(Sub(c[i], c0)))])

ProductMoment(w, c, c0, e, e0) ==
    Sum([i \in 1..Len(c) |-> Mul(Mul(w[i], Sub(c[i], c0)), Sub(e[i], e0))])

\* the attributes of lines 741-766 from the sums of lines 733-739
Properties(L, A, xc, yc, Ix, Iy, Ixy, all_x, all_y) ==
    [x_centroid |-> xc, y_centroid |-> yc, L |-> L, A |-> A,
     Ix |-> Ix, Iy |-> Iy, Iz |-> Add(Ix, Iy), Ixy |-> Ixy,
     theta_p |-> PrincipalAngle(Ix, Iy, Ixy),
     Sx1 |-> Div(Ix, Abs(Sub(Max(all_y), yc))),
     Sx2 |-> Div(Ix, Abs(Sub(Min(all_y), yc))),
     Sy1 |-> Div(Iy, Abs(Sub(Max(all_x), xc))),
     Sy2 |-> Div(Iy, Abs(Sub(Min(all_x), xc)))]

\* AboutCentroid with the extreme fibres taken over the patch centroids only
AboutCentroidOfCentroids(per, L, A, xc, yc) ==
    Properties(L, A, xc, yc,
               SecondMoment(per["area"], per["y_centroid"], yc),
               SecondMoment(per["area"], per["x_centroid"], xc),
               ProductMoment(per["area"], per["y_centroid"], yc, per["x_centroid"], xc),
               per["x_centroid"], per["y_centroid"])

AboutCentroid(per, L, A, xc, yc) ==
    Properties(L, A, xc, yc,
               SecondMoment(per["area"], per["y_centroid"], yc),
               SecondMoment(per["area"], per["x_centroid"], xc),
               ProductMoment(per["area"], per["y_centroid"], yc, per["x_centroid"], xc),
               per["x_centroid"] \o per["x_start"] \o per["x_end"],
               per["y_centroid"] \o per["y_start"] \o per["y_end"])

WithArea(per, L, A) ==
    AboutCentroid(per, L, A,
                  Div(Sum(Zip2(per["x_centroid"], per["area"], Mul)), A),
                  Div(Sum(Zip2(per["y_centroid"], per["area"], Mul)), A))

\* update_properties() adding the total length to the one found before
update_propertiesAddingL(per, props) ==
    IF NPatches(per) = 0
    THEN [raised |-> TRUE, props |-> [props EXCEPT !.L = Zero, !.A = Zero]]
    ELSE [raised |-> FALSE,
          props |-> WithArea(per,
                             IF props.L = None THEN Sum(per["length"])
                             ELSE Add(props.L, Sum(per["length"])),
                             Sum(per["area"]))]

\* update_properties(): [raised, props].  With no patch the sums are the
\* Python int 0 and xA / self.A raises ZeroDivisionError after L and A are set.
update_properties(per, props) ==
    IF NPatches(per) = 0
    THEN [raised |-> TRUE, props |-> [props EXCEPT !.L = Zero, !.A = Zero]]
    ELSE [raised |-> FALSE,
          props |-> WithArea(per, Sum(per["length"]), Sum(per["area"]))]

(***************************************************************************)
(* Rotation: rotate(angle)                                                 *)
(***************************************************************************)
\* an angle is carried by its tangent; the half turn (180 degrees), which its
\* tangent does not tell from 0, by a value of its own
HalfTurn == <<"180">>

\* cos and sin of an angle
Cos(t) == IF t = HalfTurn THEN N(-1) ELSE Div(N(1), Sqrt(Add(N(1), Sq(t))))

Sin(t) == IF t = HalfTurn THEN Zero ELSE Mul(t, Cos(t))

\* T @ <<x, y>> for T = [[c, -s], [s, c]]
RotX(c, s, x, y) == Sub(Mul(c, x), Mul(s, y))

RotY(c, s, x, y) == Add(Mul(s, x), Mul(c, y))

\* the six coordinate columns rotated (lines 645-670); the others are kept
rotate(per, t) ==
    LET c == Cos(t)
        s == Sin(t)
        n == NPatches(per)
    IN  [per EXCEPT
            !["x_centroid"] = [i \in 1..n |->
                                  RotX(c, s, per["x_centroid"][i], per["y_centroid"][i])],
            !["y_centroid"] = [i \in 1..n |->
                                  RotY(c, s, per["x_centroid"][i], per["y_centroid"][i])],
            !["x_start"] = [i \in 1..n |-> RotX(c, s, per["x_start"][i], per["y_start"][i])],
            !["y_start"] = [i \in 1..n |-> RotY(c, s, per["x_start"][i], per["y_start"][i])],
            !["x_end"] = [i \in 1..n |-> RotX(c, s, per["x_end"][i], per["y_end"][i])],
            !["y_end"] = [i \in 1..n |-> RotY(c, s, per["x_end"][i], per["y_end"][i])]]

(***************************************************************************)
(* The solver: solve(P, Mx, My, gamma_vx, gamma_vy, consider_Pe,           *)
(* auto_rotate)                                                            *)
(***************************************************************************)
\* the default "auto" of gamma_vx and gamma_vy
Auto == <<"auto">>

\* the applied-force attributes as __init__ leaves them
NoApplied ==
    [P |-> None, Mx |-> None, My |-> None, Pex |-> None, Pey |-> None,
     gamma_vx |-> None, gamma_vy |-> None, Mx_final |-> None, My_final |-> None]

CornerConditions == {"NW", "NE", "SW", "SE"}

\* abs(required_rotation) > 0.1 degrees, on tangents: tan(0.1 deg) = 0.0017453...
NeedsRotation(theta_p) == Gt(Abs(theta_p), <<(<<17453, 10000000>>), RZero>>)

\* 1 - 1 / (1 + (2/3) * sqrt(ratio))
GammaV(ratio) ==
    Sub(N(1), Div(N(1), Add(N(1), Mul(Frac(2, 3), Sqrt(ratio)))))

\* 1 - 1 / (1 + (2/3) * sqrt(ratio) - 0.2) if ratio > 0.2 else 0
GammaVStud(ratio) ==
    IF Gt(ratio, Frac(1, 5))
    THEN Sub(N(1), Div(N(1), Sub(Add(N(1), Mul(Frac(2, 3), Sqrt(ratio))), Frac(1, 5))))
    ELSE Zero

\* lx and ly: the extent of the patch centroids
Extent(col) == Sub(Max(col), Min(col))

\* <<g_vx, g_vy>> as computed before the rotation (lines 1064-1082); a corner
\* with stud rails leaves both unassigned
GammaBefore(args, per) ==
    LET lx == Extent(per["x_centroid"])
        ly == Extent(per["y_centroid"])
    IN  IF args.has_studrail
        THEN IF args.condition = "I"
             THEN <<GammaV(Div(ly, lx)), GammaV(Div(lx, ly))>>
             ELSE IF args.condition \in {"N", "S"}
             THEN <<GammaVStud(Div(ly, lx)), GammaV(Div(lx, ly))>>
             ELSE IF args.condition \in {"W", "E"}
             THEN <<GammaV(Div(ly, lx)), GammaVStud(Div(lx, ly))>>
             ELSE <<None, None>>
        ELSE <<GammaV(Div(ly, lx)), GammaV(Div(lx, ly))>>

\* GammaAfter recomputing g_vx and g_vy on the rotated patches for every
\* corner, with or without stud rails
GammaAfterEveryCorner(args, per, g) ==
    LET lx == Extent(per["x_centroid"])
        ly == Extent(per["y_centroid"])
    IN  IF args.condition \in CornerConditions
        THEN IF ~args.has_studrail
             THEN <<GammaV(Div(ly, lx)), GammaV(Div(lx, ly))>>
             ELSE IF Gt(ly, lx)
             THEN <<Frac(2, 5), GammaVStud(Div(lx, ly))>>
             ELSE <<GammaVStud(Div(ly, lx)), Frac(2, 5)>>
        ELSE g

\* <<g_vx, g_vy>> after the rotation (lines 1101-1111): recomputed for a
\* corner with stud rails, otherwise the values g computed before
GammaAfter(args, per, g) ==
    LET lx == Extent(per["x_centroid"])
        ly == Extent(per["y_centroid"])
    IN  IF args.has_studrail /\ args.condition \in CornerConditions
        THEN IF Gt(ly, lx)
             THEN <<Frac(2, 5), GammaVStud(Div(lx, ly))>>
             ELSE <<GammaVStud(Div(ly, lx)), Frac(2, 5)>>
        ELSE g

\* PatchRow with the sign of the My term lost
PatchRowSignLost(per, props, applied, i) ==
    LET dx == Sub(per["x_centroid"][i], props.x_centroid)
        dy == Sub(per["y_centroid"][i], props.y_centroid)
        v_axial == Div(applied.P, props.A)
        v_Mx == Div(Mul(applied.Mx_final, dy), props.Ix)
        v_My == Div(Mul(applied.My_final, dx), props.Iy)
        v_total == Add(Add(v_axial, v_Mx), v_My)
        Fz == Mul(v_total, per["area"][i])
    IN  [v_axial |-> v_axial, v_Mx |-> v_Mx, v_My |-> v_My, v_total |-> v_total,
         Fz |-> Fz, Mxi |-> Mul(Fz, dy), Myi |-> Mul(Neg(Fz), dx)]

\* PatchRow with the moment of Fz about the y axis taken without its sign
PatchRowMyiUnsigned(per, props, applied, i) ==
    LET dx == Sub(per["x_centroid"][i], props.x_centroid)
        dy == Sub(per["y_centroid"][i], props.y_centroid)
        v_axial == Div(applied.P, props.A)
        v_Mx == Div(Mul(applied.Mx_final, dy), props.Ix)
        v_My == Div(Mul(Neg(applied.My_final), dx), props.Iy)
        v_total == Add(Add(v_axial, v_Mx), v_My)
        Fz == Mul(v_total, per["area"][i])
    IN  [v_axial |-> v_axial, v_Mx |-> v_Mx, v_My |-> v_My, v_total |-> v_total,
         Fz |-> Fz, Mxi |-> Mul(Fz, dy), Myi |-> Mul(Fz, dx)]

\* PatchRow with the axial stress taken over the length of the perimeter
\* instead of its area
PatchRowOverLength(per, props, applied, i) ==
    LET dx == Sub(per["x_centroid"][i], props.x_centroid)
        dy == Sub(per["y_centroid"][i], props.y_centroid)
        v_axial == Div(applied.P, props.L)
        v_Mx == Div(Mul(applied.Mx_final, dy), props.Ix)
        v_My == Div(Mul(Neg(applied.My_final), dx), props.Iy)
        v_total == Add(Add(v_axial, v_Mx), v_My)
        Fz == Mul(v_total, per["area"][i])
    IN  [v_axial |-> v_axial, v_Mx |-> v_Mx, v_My |-> v_My, v_total |-> v_total,
         Fz |-> Fz, Mxi |-> Mul(Fz, dy), Myi |-> Mul(Neg(Fz), dx)]

\* the seven result entries of patch i (lines 1137-1147)
PatchRow(per, props, applied, i) ==
    LET dx == Sub(per["x_centroid"][i], props.x_centroid)
        dy == Sub(per["y_centroid"][i], props.y_centroid)
        v_axial == Div(applied.P, props.A)
        v_Mx == Div(Mul(applied.Mx_final, dy), props.Ix)
        v_My == Div(Mul(Neg(applied.My_final), dx), props.Iy)
        v_total == Add(Add(v_axial, v_Mx), v_My)
        Fz == Mul(v_total, per["area"][i])
    IN  [v_axial |-> v_axial, v_Mx |-> v_Mx, v_My |-> v_My, v_total |-> v_total,
         Fz |-> Fz, Mxi |-> Mul(Fz, dy), Myi |-> Mul(Neg(Fz), dx)]

\* the loop of lines 1134-1156: one row per patch appended to each result list
AppendRows(per, props, applied) ==
    LET rows == [i \in 1..NPatches(per) |-> PatchRow(per, props, applied, i)]
    IN  [c \in Columns |->
            IF c \in ResultColumns
            THEN per[c] \o [i \in 1..NPatches(per) |-> rows[i][c]]
            ELSE per[c]]

\* WithinTol without the abs(): a residual far below zero passes
WithinTolSigned(residual) == Lt(residual, Frac(1, 10))

\* abs(residual) < TOL with TOL = 0.1
WithinTol(residual) == Lt(Abs(residual), Frac(1, 10))

\* the verdict of lines 1164-1174
EquilibriumCheck(per, applied) ==
    /\ WithinTol(Sub(Sum(per["Fz"]), applied.P))
    /\ WithinTol(Sub(Sum(per["Mxi"]), applied.Mx_final))
    /\ WithinTol(Sub(Sum(per["Myi"]), applied.My_final))

\* pd.DataFrame(dict) accepts lists of one length only (ValueError otherwise)
SameLength(per) == \A c \in Columns : Len(per[c]) = Len(per["x_centroid"])

\* Conclude raising an error of its own when the equilibrium check fails
ConcludeRaising(per, props, ap, df) ==
    [perimeter |-> per, props |-> props, applied |-> ap,
     equilibrium_check_passed |-> IF EquilibriumCheck(per, ap) THEN "True" ELSE "False",
     v_max |-> Abs(MaxAbs(per["v_total"])),
     df_perimeter |-> IF SameLength(per) /\ EquilibriumCheck(per, ap) THEN per ELSE df,
     outcome |-> IF ~EquilibriumCheck(per, ap) THEN "EquilibriumViolation"
                 ELSE IF SameLength(per) THEN "returned" ELSE "ValueError"]

\* Conclude taking the greatest stress by its signed value: max() without
\* key=abs
ConcludeMaxSigned(per, props, ap, df) ==
    [perimeter |-> per, props |-> props, applied |-> ap,
     equilibrium_check_passed |-> IF EquilibriumCheck(per, ap) THEN "True" ELSE "False",
     v_max |-> Abs(Max(per["v_total"])),
     df_perimeter |-> IF SameLength(per) THEN per ELSE df,
     outcome |-> IF SameLength(per) THEN "returned" ELSE "ValueError"]

\* lines 1157-1178: v_max, the verdict, and the data frame, which is built
\* only from lists of one length; per holds the rows just appended
Conclude(per, props, ap, df) ==
    [perimeter |-> per, props |-> props, applied |-> ap,
     equilibrium_check_passed |-> IF EquilibriumCheck(per, ap) THEN "True" ELSE "False",
     v_max |-> Abs(MaxAbs(per["v_total"])),
     df_perimeter |-> IF SameLength(per) THEN per ELSE df,
     outcome |-> IF SameLength(per) THEN "returned" ELSE "ValueError"]

\* lines 1125-1156: the final moments are stored, then the rows are appended
Distribute(per, props, ap, df) == Conclude(AppendRows(per, props, ap), props, ap, df)

\* lines 1114-1132: the applied forces from the call c, the moments Mx, My
\* after the rotation and the gamma that is used
Applied(c, Mx, My, gamma_vx, gamma_vy, Pex, Pey) ==
    [P |-> c.P, Mx |-> Mx, My |-> My, Pex |-> Pex, Pey |-> Pey,
     gamma_vx |-> gamma_vx, gamma_vy |-> gamma_vy,
     Mx_final |-> Mul(gamma_vx, Add(Mx, Pey)),
     My_final |-> Mul(gamma_vy, Add(My, Pex))]

\* AfterRotation taking the caller's gamma only when both are given
AfterRotationBothGiven(a, c, per, props, Mx, My, g, df) ==
    Distribute(per, props,
               Applied(c, Mx, My,
                       IF c.gamma_vx = Auto \/ c.gamma_vy = Auto
                       THEN GammaAfter(a, per, g)[1] ELSE c.gamma_vx,
                       IF c.gamma_vx = Auto \/ c.gamma_vy = Auto
                       THEN GammaAfter(a, per, g)[2] ELSE c.gamma_vy,
                       IF c.consider_Pe THEN Mul(c.P, props.x_centroid) ELSE Zero,
                       IF c.consider_Pe THEN Mul(Neg(c.P), props.y_centroid) ELSE Zero),
               df)

\* AfterRotation with Pey = P * y_centroid, the sign left out
AfterRotationPeyUnsigned(a, c, per, props, Mx, My, g, df) ==
    Distribute(per, props,
               Applied(c, Mx, My,
                       IF c.gamma_vx = Auto THEN GammaAfter(a, per, g)[1] ELSE c.gamma_vx,
                       IF c.gamma_vy = Auto THEN GammaAfter(a, per, g)[2] ELSE c.gamma_vy,
                       IF c.consider_Pe THEN Mul(c.P, props.x_centroid) ELSE Zero,
                       IF c.consider_Pe THEN Mul(c.P, props.y_centroid) ELSE Zero),
               df)

\* lines 1099-1123 on the patches per as the rotation left them; g: the gamma
\* computed before the rotation
AfterRotation(a, c, per, props, Mx, My, g, df) ==
    Distribute(per, props,
               Applied(c, Mx, My,
                       IF c.gamma_vx = Auto THEN GammaAfter(a, per, g)[1] ELSE c.gamma_vx,
                       IF c.gamma_vy = Auto THEN GammaAfter(a, per, g)[2] ELSE c.gamma_vy,
                       IF c.consider_Pe THEN Mul(c.P, props.x_centroid) ELSE Zero,
                       IF c.consider_Pe THEN Mul(Neg(c.P), props.y_centroid) ELSE Zero),
               df)

\* Rotation that turns the geometry and leaves the moments as they were given
RotationOfGeometryOnly(a, c, per, theta_p, rotated, g, df) ==
    IF rotated
    THEN AfterRotation(a, c, RotatePatches(per, theta_p),
                       UpdateProperties(RotatePatches(per, theta_p), NoProperties).props,
                       c.Mx, c.My, g, df)
    ELSE AfterRotation(a, c, per, UpdateProperties(per, NoProperties).props,
                       c.Mx, c.My, g, df)

\* Rotation that turns the patches and keeps the properties update_properties()
\* found before they were turned
RotationKeepingProperties(a, c, per, theta_p, rotated, g, df) ==
    IF rotated
    THEN AfterRotation(a, c, RotatePatches(per, theta_p),
                       UpdateProperties(per, NoProperties).props,
                       RotX(Cos(theta_p), Sin(theta_p), c.Mx, c.My),
                       RotY(Cos(theta_p), Sin(theta_p), c.Mx, c.My), g, df)
    ELSE AfterRotation(a, c, per, UpdateProperties(per, NoProperties).props,
                       c.Mx, c.My, g, df)

\* lines 1084-1099: rotate(theta_p) and T @ [Mx, My] if rotated, then
\* update_properties() (rotate() ends with it and line 1099 repeats it)
Rotation(a, c, per, theta_p, rotated, g, df) ==
    IF rotated
    THEN AfterRotation(a, c, RotatePatches(per, theta_p),
                       UpdateProperties(RotatePatches(per, theta_p), NoProperties).props,
                       RotX(Cos(theta_p), Sin(theta_p), c.Mx, c.My),
                       RotY(Cos(theta_p), Sin(theta_p), c.Mx, c.My), g, df)
    ELSE AfterRotation(a, c, per, UpdateProperties(per, NoProperties).props,
                       c.Mx, c.My, g, df)

\* Solving with the gamma test of line 1056 made with "and": one gamma left
\* as "auto" is let through
SolvingBothAuto(a, per, ap, ecp, vm, df, c, u) ==
    IF u.raised \/ (~a.generate_perimeter /\ (c.gamma_vx = Auto /\ c.gamma_vy = Auto))
    THEN [perimeter |-> per, props |-> u.props, applied |-> ap,
          equilibrium_check_passed |-> ecp, v_max |-> vm, df_perimeter |-> df,
          outcome |-> IF u.raised THEN "ZeroDivisionError" ELSE "RuntimeError"]
    ELSE Rotation(a, c, per, u.props.theta_p,
                  NeedsRotation(u.props.theta_p) /\ c.auto_rotate,
                  GammaBefore(a, per), df)

\* Solving with a load of all zeros turned away before anything is computed
SolvingRejectingZero(a, per, ap, ecp, vm, df, c, u) ==
    IF c.P = Zero /\ c.Mx = Zero /\ c.My = Zero
    THEN [perimeter |-> per, props |-> u.props, applied |-> ap,
          equilibrium_check_passed |-> ecp, v_max |-> vm, df_perimeter |-> df,
          outcome |-> "NoAppliedLoad"]
    ELSE IF u.raised \/ (~a.generate_perimeter /\ (c.gamma_vx = Auto \/ c.gamma_vy = Auto))
    THEN [perimeter |-> per, props |-> u.props, applied |-> ap,
          equilibrium_check_passed |-> ecp, v_max |-> vm, df_perimeter |-> df,
          outcome |-> IF u.raised THEN "ZeroDivisionError" ELSE "RuntimeError"]
    ELSE Rotation(a, c, per, u.props.theta_p,
                  NeedsRotation(u.props.theta_p) /\ c.auto_rotate,
                  GammaBefore(a, per), df)

\* Solving with the section turned to its principal axes whether or not
\* auto_rotate is set
SolvingAlwaysRotated(a, per, ap, ecp, vm, df, c, u) ==
    IF u.raised \/ (~a.generate_perimeter /\ (c.gamma_vx = Auto \/ c.gamma_vy = Auto))
    THEN [perimeter |-> per, props |-> u.props, applied |-> ap,
          equilibrium_check_passed |-> ecp, v_max |-> vm, df_perimeter |-> df,
          outcome |-> IF u.raised THEN "ZeroDivisionError" ELSE "RuntimeError"]
    ELSE Rotation(a, c, per, u.props.theta_p, NeedsRotation(u.props.theta_p),
                  GammaBefore(a, per), df)

\* solve() from line 1052 on; u: what the first update_properties() gave
Solving(a, per, ap, ecp, vm, df, c, u) ==
    IF u.raised \/ (~a.generate_perimeter /\ (c.gamma_vx = Auto \/ c.gamma_vy = Auto))
    THEN [perimeter |-> per, props |-> u.props, applied |-> ap,
          equilibrium_check_passed |-> ecp, v_max |-> vm, df_perimeter |-> df,
          outcome |-> IF u.raised THEN "ZeroDivisionError" ELSE "RuntimeError"]
    ELSE Rotation(a, c, per, u.props.theta_p,
                  NeedsRotation(u.props.theta_p) /\ c.auto_rotate,
                  GammaBefore(a, per), df)

\* what one solve() call does to the object: the attributes it leaves and how
\* it ends ("returned", or the exception it raises).  a: the constructor's
\* arguments; c: the call's arguments.
solve(a, per, pr, ap, ecp, vm, df, c) ==
    Solving(a, per, ap, ecp, vm, df, c, UpdateProperties(per, pr))

(***************************************************************************)
(* Opening removal: add_opening(xo, yo, width, depth)                      *)
(***************************************************************************)
\* where math.atan2(y, x) falls: 1 for (-pi, 0), 2 for 0, 3 for (0, pi), 4 for pi
AngleClass(x, y) ==
    IF Sign(y) < 0 THEN 1
    ELSE IF Sign(y) > 0 THEN 3
    ELSE IF Sign(x) < 0 THEN 4 ELSE 2

\* math.atan2(p[2], p[1]) < math.atan2(q[2], q[1]), decided exactly
AngleLt(p, q) ==
    LET cp == AngleClass(p[1], p[2])
        cq == AngleClass(q[1], q[2])
    IN  IF cp # cq THEN cp < cq
        ELSE IF cp \in {2, 4} THEN FALSE
        ELSE Sign(Sub(Mul(p[1], q[2]), Mul(p[2], q[1]))) > 0

\* the corner of pts with the least (greatest) polar angle
RECURSIVE AngleMinUpTo(_, _)
AngleMinUpTo(pts, n) ==
    IF n = 1 THEN pts[1]
    ELSE LET m == AngleMinUpTo(pts, n - 1) IN IF AngleLt(pts[n], m) THEN pts[n] ELSE m

RECURSIVE AngleMaxUpTo(_, _)
AngleMaxUpTo(pts, n) ==
    IF n = 1 THEN pts[1]
    ELSE LET m == AngleMaxUpTo(pts, n - 1) IN IF AngleLt(m, pts[n]) THEN pts[n] ELSE m

OpeningPts(xo, yo, width, depth) ==
    << <<xo, yo>>, <<Add(xo, width), yo>>, <<Add(xo, width), Add(yo, depth)>>,
       <<xo, Add(yo, depth)>> >>

\* InShadow with only the lower bound tested: theta_min < theta
InShadowAboveMin(per, pts, i) ==
    LET c == <<per["x_centroid"][i], per["y_centroid"][i]>>
    IN  /\ ~IsNaN(c[1]) /\ ~IsNaN(c[2])
        /\ AngleLt(AngleMinUpTo(pts, 4), c)

\* patch i lies in the opening's shadow: theta_min < theta and theta < theta_max
\* (math.atan2 of a nan is nan, which no comparison finds less or greater)
InShadow(per, pts, i) ==
    LET c == <<per["x_centroid"][i], per["y_centroid"][i]>>
    IN  /\ ~IsNaN(c[1]) /\ ~IsNaN(c[2])
        /\ AngleLt(AngleMinUpTo(pts, 4), c)
        /\ AngleLt(c, AngleMaxUpTo(pts, 4))

RECURSIVE KeepIdx(_, _, _)
KeepIdx(per, pts, i) ==
    IF i > NPatches(per) THEN <<>>
    ELSE (IF InShadow(per, pts, i) THEN <<>> ELSE <<i>>) \o KeepIdx(per, pts, i + 1)

\* add_opening with the depth list left out of the deletion
add_openingKeepingDepth(per, xo, yo, width, depth) ==
    LET keep == KeepIdx(per, OpeningPts(xo, yo, width, depth), 1)
    IN  [c \in Columns |->
            IF c \in GeometryColumns \ {"depth"}
            THEN [k \in 1..Len(keep) |-> per[c][keep[k]]]
            ELSE per[c]]

\* lines 605-625: the shadowed entries deleted from the nine geometry lists;
\* the result lists are not touched
add_opening(per, xo, yo, width, depth) ==
    LET keep == KeepIdx(per, OpeningPts(xo, yo, width, depth), 1)
    IN  [c \in Columns |->
            IF c \in GeometryColumns
            THEN [k \in 1..Len(keep) |-> per[c][keep[k]]]
            ELSE per[c]]

(***************************************************************************)
(* Construction: __init__ and auto_generate_perimeters()                   *)
(***************************************************************************)
\* the polyline of each of the nine support conditions (lines 203-536)
Polyline(a, xl, xr, yb, yt, xlL, xrL, ybL, ytL, xeW, xeE, yeS, yeN, far_x, far_y) ==
    LET box_from_top == << <<xl, yt>>, <<xl, yb>>, <<xr, yb>>, <<xr, yt>>, <<xl, yt>> >>
        box_from_bot == << <<xl, yb>>, <<xr, yb>>, <<xr, yt>>, <<xl, yt>>, <<xl, yb>> >>
        open_top == << <<xl, yeN>>, <<xl, yb>>, <<xr, yb>>, <<xr, yeN>> >>
        open_bot == << <<xr, yeS>>, <<xr, yt>>, <<xl, yt>>, <<xl, yeS>> >>
        open_left == << <<xeW, yb>>, <<xr, yb>>, <<xr, yt>>, <<xeW, yt>> >>
        open_right == << <<xeE, yt>>, <<xl, yt>>, <<xl, yb>>, <<xeE, yb>> >>
    IN  CASE a.condition = "N" ->
               IF a.has_studrail
               THEN << <<xlL, yeN>>, <<xlL, yb>>, <<xl, ybL>>, <<xr, ybL>>,
                       <<xrL, yb>>, <<xrL, yeN>> >>
               ELSE IF far_y THEN box_from_top ELSE open_top
          [] a.condition = "S" ->
               IF a.has_studrail
               THEN << <<xrL, yeS>>, <<xrL, yt>>, <<xr, ytL>>, <<xl, ytL>>,
                       <<xlL, yt>>, <<xlL, yeS>> >>
               ELSE IF far_y THEN box_from_top
               ELSE << <<xl, yeS>>, <<xl, yt>>, <<xr, yt>>, <<xr, yeS>> >>
          [] a.condition = "W" ->
               IF a.has_studrail
               THEN << <<xeW, ybL>>, <<xr, ybL>>, <<xrL, yb>>, <<xrL, yt>>,
                       <<xr, ytL>>, <<xeW, ytL>> >>
               ELSE IF far_x THEN box_from_top ELSE open_left
          [] a.condition = "E" ->
               IF a.has_studrail
               THEN << <<xeE, ytL>>, <<xl, ytL>>, <<xlL, yt>>, <<xlL, yb>>,
                       <<xl, ybL>>, <<xeE, ybL>> >>
               ELSE IF far_x THEN box_from_top ELSE open_right
          [] a.condition = "I" ->
               IF a.has_studrail
               THEN << <<xl, ybL>>, <<xr, ybL>>, <<xrL, yb>>, <<xrL, yt>>, <<xr, ytL>>,
                       <<xl, ytL>>, <<xlL, yt>>, <<xlL, yb>>, <<xl, ybL>> >>
               ELSE box_from_bot
          [] a.condition = "NW" ->
               IF a.has_studrail
               THEN << <<xeW, ybL>>, <<xr, ybL>>, <<xrL, yb>>, <<xrL, yeN>> >>
               ELSE IF far_x /\ far_y THEN box_from_bot
               ELSE IF far_x THEN open_top
               ELSE IF far_y THEN open_left
               ELSE << <<xeW, yb>>, <<xr, yb>>, <<xr, yeN>> >>
          [] a.condition = "NE" ->
               IF a.has_studrail
               THEN << <<xlL, yeN>>, <<xlL, yb>>, <<xl, ybL>>, <<xeE, ybL>> >>
               ELSE IF far_x /\ far_y THEN box_from_bot
               ELSE IF far_x THEN open_top
               ELSE IF far_y THEN open_right
               ELSE << <<xl, yeN>>, <<xl, yb>>, <<xeE, yb>> >>
          [] a.condition = "SW" ->
               IF a.has_studrail
               THEN << <<xrL, yeS>>, <<xrL, yt>>, <<xr, ytL>>, <<xeW, ytL>> >>
               ELSE IF far_x /\ far_y THEN box_from_bot
               ELSE IF far_x THEN open_bot
               ELSE IF far_y THEN open_left
               ELSE << <<xr, yeS>>, <<xr, yt>>, <<xeW, yt>> >>
          [] a.condition = "SE" ->
               IF a.has_studrail
               THEN << <<xeE, ytL>>, <<xl, ytL>>, <<xlL, yt>>, <<xlL, yeS>> >>
               ELSE IF far_x /\ far_y THEN box_from_bot
               ELSE IF far_x THEN open_bot
               ELSE IF far_y THEN open_right
               ELSE << <<xeE, yt>>, <<xl, yt>>, <<xl, yeS>> >>

\* the critical perimeter at d/2 from the column faces (xl, xr, yb, yt), pushed
\* out by the stud rails and cut at the slab edges
Offsets(a, xl, xr, yb, yt) ==
    Polyline(a, xl, xr, yb, yt,
             Sub(xl, a.L_studrail), Add(xr, a.L_studrail),
             Sub(yb, a.L_studrail), Add(yt, a.L_studrail),
             Sub(Neg(Half(a.width)), a.overhang_x), Add(Half(a.width), a.overhang_x),
             Sub(Neg(Half(a.height)), a.overhang_y), Add(Half(a.height), a.overhang_y),
             Gt(a.overhang_x, Add(Half(a.height), a.slab_depth)),
             Gt(a.overhang_y, Add(Half(a.width), a.slab_depth)))

\* self.perimeter_pts (lines 203-536)
PerimeterPts(a) ==
    Offsets(a, Sub(Neg(Half(a.width)), Half(a.slab_depth)),
               Add(Half(a.width), Half(a.slab_depth)),
               Sub(Neg(Half(a.height)), Half(a.slab_depth)),
               Add(Half(a.height), Half(a.slab_depth)))

\* lines 538-542: add_perimeter() along the first n segments of the polyline
RECURSIVE DrawPerimeter(_, _, _)
DrawPerimeter(a, pts, n) ==
    IF n = 0 THEN EmptyPerimeter
    ELSE AddPerimeter(DrawPerimeter(a, pts, n - 1), pts[n], pts[n + 1],
                      a.slab_depth, a.PATCH_SIZE)

DrawAll(a, pts) == DrawPerimeter(a, pts, Len(pts) - 1)

\* auto_generate_perimeters()
auto_generate_perimeters(a) == DrawAll(a, PerimeterPts(a))

(***************************************************************************)
(* The geometry kept for the figures: the column outline, the stud rails,  *)
(* the slab edge and the openings.  rotate() turns it with the patches.    *)
(***************************************************************************)
\* self.col_pts (lines 86-89)
ColPts(a) ==
    << <<Neg(Half(a.width)), Neg(Half(a.height))>>, <<Half(a.width), Neg(Half(a.height))>>,
       <<Half(a.width), Half(a.height)>>, <<Neg(Half(a.width)), Half(a.height)>> >>

\* the pairs of points of the rails that leave the column upwards, downwards,
\* to the right and to the left; b2 = b/2, h2 = h/2, L = L_studrail
RailsTop(b2, h2, L) ==
    << << <<Neg(b2), h2>>, <<Neg(b2), Add(h2, L)>> >>, << <<b2, h2>>, <<b2, Add(h2, L)>> >> >>

RailsBot(b2, h2, L) ==
    << << <<Neg(b2), Neg(h2)>>, <<Neg(b2), Sub(Neg(h2), L)>> >>,
       << <<b2, Neg(h2)>>, <<b2, Sub(Neg(h2), L)>> >> >>

RailsRight(b2, h2, L) ==
    << << <<b2, h2>>, <<Add(b2, L), h2>> >>, << <<b2, Neg(h2)>>, <<Add(b2, L), Neg(h2)>> >> >>

RailsLeft(b2, h2, L) ==
    << << <<Neg(b2), h2>>, <<Sub(Neg(b2), L), h2>> >>,
       << <<Neg(b2), Neg(h2)>>, <<Sub(Neg(b2), L), Neg(h2)>> >> >>

\* self.studrail_pts as auto_generate_perimeters() fills it (lines 217-510)
StudrailPts(a) ==
    LET t == RailsTop(Half(a.width), Half(a.height), a.L_studrail)
        b == RailsBot(Half(a.width), Half(a.height), a.L_studrail)
        r == RailsRight(Half(a.width), Half(a.height), a.L_studrail)
        l == RailsLeft(Half(a.width), Half(a.height), a.L_studrail)
    IN  IF ~a.has_studrail THEN <<>>
        ELSE CASE a.condition = "N" -> b \o r \o l
               [] a.condition = "S" -> t \o r \o l
               [] a.condition = "W" -> t \o b \o r
               [] a.condition = "E" -> t \o b \o l
               [] a.condition = "I" -> t \o b \o r \o l
               [] a.condition = "NW" -> b \o r
               [] a.condition = "NE" -> b \o l
               [] a.condition = "SW" -> t \o r
               [] a.condition = "SE" -> t \o l

\* self.slabedge_lines and self.slabedge_pts (lines 204-500) from the edge
\* coordinates xW, xE, yS, yN, the far extents X, Y of the slab drawn and the
\* longer extents X15, XL15, Y15 drawn opposite an edge
SlabEdge(condition, xW, xE, yS, yN, X, Y, X15, XL15, Y15) ==
    CASE condition = "N" ->
           [lines |-> << << <<Neg(X), yN>>, <<X, yN>> >> >>,
            pts |-> << <<Neg(X), yN>>, <<X, yN>>, <<X, Neg(Y15)>>, <<Neg(X), Neg(Y15)>> >>]
      [] condition = "S" ->
           [lines |-> << << <<Neg(X), yS>>, <<X, yS>> >> >>,
            pts |-> << <<Neg(X), yS>>, <<X, yS>>, <<X, Y15>>, <<Neg(X), Y15>> >>]
      [] condition = "W" ->
           [lines |-> << << <<xW, Neg(Y)>>, <<xW, Y>> >> >>,
            pts |-> << <<xW, Neg(Y)>>, <<xW, Y>>, <<X15, Y>>, <<X15, Neg(Y)>> >>]
      [] condition = "E" ->
           [lines |-> << << <<xE, Neg(Y)>>, <<xE, Y>> >> >>,
            pts |-> << <<xE, Neg(Y)>>, <<xE, Y>>, <<Neg(XL15), Y>>, <<Neg(XL15), Neg(Y)>> >>]
      [] condition = "I" -> [lines |-> <<>>, pts |-> <<>>]
      [] condition = "NW" ->
           [lines |-> << << <<xW, yN>>, <<X, yN>> >>, << <<xW, yN>>, <<xW, Neg(Y)>> >> >>,
            pts |-> << <<xW, yN>>, <<X, yN>>, <<X, Neg(Y)>>, <<xW, Neg(Y)>> >>]
      [] condition = "NE" ->
           [lines |-> << << <<xE, yN>>, <<Neg(X), yN>> >>, << <<xE, yN>>, <<xE, Neg(Y)>> >> >>,
            pts |-> << <<xE, yN>>, <<Neg(X), yN>>, <<Neg(X), Neg(Y)>>, <<xE, Neg(Y)>> >>]
      [] condition = "SW" ->
           [lines |-> << << <<xW, yS>>, <<X, yS>> >>, << <<xW, yS>>, <<xW, Y>> >> >>,
            pts |-> << <<xW, yS>>, <<X, yS>>, <<X, Y>>, <<xW, Y>> >>]
      [] condition = "SE" ->
           [lines |-> << << <<xE, yS>>, <<Neg(X), yS>> >>, << <<xE, yS>>, <<xE, Y>> >> >>,
            pts |-> << <<xE, yS>>, <<Neg(X), yS>>, <<Neg(X), Y>>, <<xE, Y>> >>]

\* SLAB_EXTENT_FACTOR (line 202)
SLAB_EXTENT_FACTOR == 4

SlabEdgeOf(a) ==
    LET b2 == Half(a.width)
        h2 == Half(a.height)
        L == a.L_studrail
        Fb == Mul(N(SLAB_EXTENT_FACTOR), a.width)
        Fh == Mul(N(SLAB_EXTENT_FACTOR), a.height)
    IN  SlabEdge(a.condition,
                 Sub(Neg(b2), a.overhang_x), Add(b2, a.overhang_x),
                 Sub(Neg(h2), a.overhang_y), Add(h2, a.overhang_y),
                 Add(Add(b2, L), Fb), Add(Add(h2, L), Fh),
                 Add(b2, Mul(Fb, Frac(3, 2))),
                 Add(Add(b2, L), Mul(Fb, Frac(3, 2))),
                 Add(Add(h2, L), Mul(Fh, Frac(3, 2))))

\* the lists of lines 78-89 after __init__: only the column outline when the
\* perimeter is left to the caller
aux_geometry(a) ==
    [openings |-> <<>>, openings_draw_pts |-> <<>>, col_pts |-> ColPts(a),
     studrail_pts |-> IF a.generate_perimeter THEN StudrailPts(a) ELSE <<>>,
     slabedge_lines |-> IF a.generate_perimeter THEN SlabEdgeOf(a).lines ELSE <<>>,
     slabedge_pts |-> IF a.generate_perimeter THEN SlabEdgeOf(a).pts ELSE <<>>]

\* add_opening(), lines 562-604: the four corners are appended to openings,
\* the corners of the least and the greatest polar angle to openings_draw_pts
OpeningDrawn(aux, pts) ==
    [aux EXCEPT !.openings = Append(@, pts),
                !.openings_draw_pts = Append(@, <<AngleMinUpTo(pts, 4), AngleMaxUpTo(pts, 4)>>)]

opening_added(aux, xo, yo, width, depth) ==
    OpeningDrawn(aux, OpeningPts(xo, yo, width, depth))

\* T @ p for every point p of the list pts, T = [[c, -s], [s, c]]
rotate_points(pts, c, s) ==
    [i \in 1..Len(pts) |-> <<RotX(c, s, pts[i][1], pts[i][2]), RotY(c, s, pts[i][1], pts[i][2])>>]

\* T @ p for the first n points of every entry of the list groups
RotateGroups(groups, n, c, s) ==
    [k \in 1..Len(groups) |-> RotatePoints(SubSeq(groups[k], 1, n), c, s)]

\* rotate_aux that leaves the lines of the slab edge where they were
rotate_aux_but_edge_lines(aux, t) ==
    [openings |-> RotateGroups(aux.openings, 4, Cos(t), Sin(t)),
     openings_draw_pts |-> RotateGroups(aux.openings_draw_pts, 2, Cos(t), Sin(t)),
     studrail_pts |-> RotateGroups(aux.studrail_pts, 2, Cos(t), Sin(t)),
     col_pts |-> RotatePoints(aux.col_pts, Cos(t), Sin(t)),
     slabedge_pts |-> RotatePoints(aux.slabedge_pts, Cos(t), Sin(t)),
     slabedge_lines |-> aux.slabedge_lines]

\* rotate(), lines 672-724: the geometry for the figures turned by t
rotate_aux(aux, t) ==
    [openings |-> RotateGroups(aux.openings, 4, Cos(t), Sin(t)),
     openings_draw_pts |-> RotateGroups(aux.openings_draw_pts, 2, Cos(t), Sin(t)),
     studrail_pts |-> RotateGroups(aux.studrail_pts, 2, Cos(t), Sin(t)),
     col_pts |-> RotatePoints(aux.col_pts, Cos(t), Sin(t)),
     slabedge_pts |-> RotatePoints(aux.slabedge_pts, Cos(t), Sin(t)),
     slabedge_lines |-> RotateGroups(aux.slabedge_lines, 2, Cos(t), Sin(t))]

\* solve() calls rotate(): lines 1052-1086 lead to line 1088
SolveRotates(a, u, c) ==
    /\ ~u.raised
    /\ a.generate_perimeter \/ (c.gamma_vx # Auto /\ c.gamma_vy # Auto)
    /\ c.auto_rotate
    /\ NeedsRotation(u.props.theta_p)

\* the geometry for the figures as solve() leaves it
solve_aux(a, per, pr, aux, c) ==
    IF SolveRotates(a, UpdateProperties(per, pr), c)
    THEN RotateAux(aux, UpdateProperties(per, pr).props.theta_p)
    ELSE aux

\* the constructor's arguments, with has_studrail as line 118 derives it
Args(condition, width, height, slab_depth, overhang_x, overhang_y, L_studrail, auto_generate_perimeter, PATCH_SIZE) ==
    [condition |-> condition, width |-> width, height |-> height,
     slab_depth |-> slab_depth, overhang_x |-> overhang_x,
     overhang_y |-> overhang_y, L_studrail |-> L_studrail,
     has_studrail |-> (L_studrail # Zero),
     generate_perimeter |-> auto_generate_perimeter, PATCH_SIZE |-> PATCH_SIZE]

\* the operation or method named f applied to the arguments a
Apply(f, a) ==
    CASE f = "sign" -> sign(a[1])
      [] f = "add" -> add(a[1], a[2])
      [] f = "mul" -> mul(a[1], a[2])
      [] f = "inv" -> inv(a[1])
      [] f = "div" -> div(a[1], a[2])
      [] f = "lt" -> lt(a[1], a[2])
      [] f = "abs" -> abs(a[1])
      [] f = "sqrt" -> sqrt(a[1])
      [] f = "floordiv" -> floordiv(a[1], a[2])
      [] f = "isclose" -> isclose(a[1], a[2])
      [] f = "add_perimeter" -> add_perimeter(a[1], a[2], a[3], a[4], a[5])
      [] f = "update_properties" -> update_properties(a[1], a[2])
      [] f = "rotate" -> rotate(a[1], a[2])
      [] f = "solve" -> solve(a[1], a[2], a[3], a[4], a[5], a[6], a[7], a[8])
      [] f = "add_opening" -> add_opening(a[1], a[2], a[3], a[4], a[5])
      [] f = "auto_generate_perimeters" -> auto_generate_perimeters(a[1])
      [] f = "aux_geometry" -> aux_geometry(a[1])
      [] f = "opening_added" -> opening_added(a[1], a[2], a[3], a[4], a[5])
      [] f = "rotate_points" -> rotate_points(a[1], a[2], a[3])
      [] f = "rotate_aux" -> rotate_aux(a[1], a[2])
      [] f = "solve_aux" -> solve_aux(a[1], a[2], a[3], a[4], a[5])

(***************************************************************************)
(* The object and its calls.  One PunchingShearSection is built (Init) and *)
(* then receives at most MaxOps calls, each drawn from a small set of      *)
(* arguments.                                                              *)
(***************************************************************************)
VARIABLES
    args,                       \* the constructor's arguments (never reassigned)
    perimeter,                  \* self.perimeter
    props,                      \* the attributes update_properties() sets
    applied,                    \* P, Mx, My, Pex, Pey, gamma_v*, M*_final
    equilibrium_check_passed,   \* "None", "True" or "False"
    v_max,                      \* self.v_max
    df_perimeter,               \* self.df_perimeter: the table last returned
    aux,                        \* the geometry kept for the figures
    call,                       \* the last call and its arguments
    outcome,                    \* how it ended: "returned" or the exception
    nops                        \* the number of calls made

vars == <<args, perimeter, props, applied, equilibrium_check_passed, v_max,
          df_perimeter, aux, call, outcome, nops>>

MaxOps == 2

\* the sections built: interior, west edge, north-west corner without and
\* with stud rails, and a custom perimeter
Constructions ==
    {Args("I", N(2), N(2), N(2), Zero, Zero, Zero, TRUE, N(4)),
     Args("W", N(2), N(2), N(2), N(1), Zero, Zero, TRUE, N(4)),
     Args("NW", N(2), N(2), N(2), N(1), N(1), Zero, TRUE, N(2)),
     Args("NW", N(2), N(2), N(2), N(1), N(1), N(2), TRUE, N(4)),
     Args("I", N(2), N(2), N(2), Zero, Zero, Zero, FALSE, N(2))}

\* the segments add_perimeter() is called with: a line on the y axis, a
\* deeper line of length 5 across it, a single point
AddedSegments ==
    {[start |-> <<N(0), N(-2)>>, end |-> <<N(0), N(2)>>, depth |-> N(1)],
     [start |-> <<Frac(-5, 2), N(3)>>, end |-> <<Frac(5, 2), N(3)>>, depth |-> N(2)],
     [start |-> <<N(1), N(1)>>, end |-> <<N(1), N(1)>>, depth |-> N(1)]}

\* the openings add_opening() is called with: one to the east of the column,
\* one around the origin
Openings ==
    {[xo |-> N(2), yo |-> N(-3), width |-> N(1), depth |-> N(6)],
     [xo |-> N(-3), yo |-> N(-1), width |-> N(6), depth |-> N(2)]}

\* the angles rotate() is called with: a half turn, and the section's own
\* principal angle once it has been computed
Angles(pr) == {HalfTurn} \cup (IF pr.theta_p = None THEN {} ELSE {pr.theta_p})

SolveArgs(P, Mx, My, gamma_vx, gamma_vy, consider_Pe, auto_rotate) ==
    [op |-> "solve", P |-> P, Mx |-> Mx, My |-> My, gamma_vx |-> gamma_vx,
     gamma_vy |-> gamma_vy, consider_Pe |-> consider_Pe, auto_rotate |-> auto_rotate]

\* the load cases and policies solve() is called with
SolveCalls ==
    {SolveArgs(N(-2), Zero, Zero, Auto, Auto, TRUE, TRUE),
     SolveArgs(N(-1), N(3), N(2), Frac(1, 2), Frac(1, 4), TRUE, TRUE),
     SolveArgs(N(-1), N(3), N(2), Frac(1, 2), Auto, FALSE, FALSE),
     SolveArgs(N(-1), N(3), N(2), Auto, Auto, FALSE, TRUE),
     SolveArgs(Zero, Zero, Zero, Frac(1, 2), Frac(1, 4), TRUE, TRUE),
     SolveArgs(N(-2), Zero, Zero, Frac(1, 2), Frac(1, 4), FALSE, FALSE)}

\* __init__ (lines 63-145)
Init ==
    /\ args \in Constructions
    /\ perimeter = IF args.generate_perimeter
                   THEN AutoGeneratePerimeters(args) ELSE EmptyPerimeter
    /\ props = NoProperties
    /\ applied = NoApplied
    /\ equilibrium_check_passed = "None"
    /\ v_max = None
    /\ df_perimeter = None
    /\ aux = AuxGeometry(args)
    /\ call = [op |-> "__init__"]
    /\ outcome = "returned"
    /\ nops = 0

\* add_perimeter(start, end, depth), on a perimeter the caller draws
AddPerimeterCall(s) ==
    /\ nops < MaxOps
    /\ ~args.generate_perimeter
    /\ perimeter' = AddPerimeter(perimeter, s.start, s.end, s.depth, args.PATCH_SIZE)
    /\ call' = [op |-> "add_perimeter", start |-> s.start, end |-> s.end,
                depth |-> s.depth]
    /\ outcome' = "returned"
    /\ nops' = nops + 1
    /\ UNCHANGED <<args, props, applied, equilibrium_check_passed, v_max, df_perimeter,
                   aux>>

\* add_opening(xo, yo, width, depth)
AddOpeningCall(o) ==
    /\ nops < MaxOps
    /\ perimeter' = AddOpening(perimeter, o.xo, o.yo, o.width, o.depth)
    /\ aux' = OpeningAdded(aux, o.xo, o.yo, o.width, o.depth)
    /\ call' = [op |-> "add_opening", xo |-> o.xo, yo |-> o.yo, width |-> o.width,
                depth |-> o.depth]
    /\ outcome' = "returned"
    /\ nops' = nops + 1
    /\ UNCHANGED <<args, props, applied, equilibrium_check_passed, v_max, df_perimeter>>

\* rotate(angle): the patches and the geometry for the figures are rotated,
\* then update_properties() runs
RotateCall(t) ==
    /\ nops < MaxOps
    /\ perimeter' = RotatePatches(perimeter, t)
    /\ aux' = RotateAux(aux, t)
    /\ LET u == UpdateProperties(perimeter', props)
       IN  /\ props' = u.props
           /\ outcome' = IF u.raised THEN "ZeroDivisionError" ELSE "returned"
    /\ call' = [op |-> "rotate", angle |-> t]
    /\ nops' = nops + 1
    /\ UNCHANGED <<args, applied, equilibrium_check_passed, v_max, df_perimeter>>

\* preview(): update_properties(), then the figure is drawn
PreviewCall ==
    /\ nops < MaxOps
    /\ LET u == UpdateProperties(perimeter, props)
       IN  /\ props' = u.props
           /\ outcome' = IF u.raised THEN "ZeroDivisionError" ELSE "returned"
    /\ call' = [op |-> "preview"]
    /\ nops' = nops + 1
    /\ UNCHANGED <<args, perimeter, applied, equilibrium_check_passed, v_max,
                   df_perimeter, aux>>

\* solve(P, Mx, My, gamma_vx, gamma_vy, consider_Pe, auto_rotate)
SolveCall(c) ==
    /\ nops < MaxOps
    /\ LET r == Solve(args, perimeter, props, applied, equilibrium_check_passed,
                      v_max, df_perimeter, c)
       IN  /\ perimeter' = r.perimeter
           /\ props' = r.props
           /\ applied' = r.applied
           /\ equilibrium_check_passed' = r.equilibrium_check_passed
           /\ v_max' = r.v_max
           /\ df_perimeter' = r.df_perimeter
           /\ outcome' = r.outcome
    /\ aux' = SolveAux(args, perimeter, props, aux, c)
    /\ call' = c
    /\ nops' = nops + 1
    /\ UNCHANGED args

Next ==
    \/ \E s \in AddedSegments : AddPerimeterCall(s)
    \/ \E o \in Openings : AddOpeningCall(o)
    \/ \E t \in Angles(props) : RotateCall(t)
    \/ PreviewCall
    \/ \E c \in SolveCalls : SolveCall(c)

Spec == Init /\ [][Next]_vars

(***************************************************************************)
(* The choice of theta_p (lines 759-766) on its own: update_properties()   *)
(* has set Ix, Iy and Ixy (lines 746-748) and goes on to set theta_p.      *)
(* The moments are drawn from sections a few units across and from         *)
(* sections some thousand units in inertia, equal, nearly equal or apart.  *)
(***************************************************************************)
\* <<Ix, Iy>> of small sections and of large ones
InertiaPairs ==
    ({N(2), N(3), N(5)} \X {N(2), N(3), N(5)})
    \cup {<<N(2), Frac(4000001, 2000000)>>, <<Frac(4000001, 2000000), N(2)>>}
    \cup {<<N(4000), N(4000)>>, <<N(4000), Frac(2000000001, 500000)>>,
          <<Frac(2000000001, 500000), N(4000)>>}

\* Ixy of a section: zero, within 1e-6 of zero, or further from it
ProductsOfInertia(I) ==
    {Zero, Frac(1, 2000000), Frac(-1, 2000000)}
    \cup (IF Lt(I[1], N(4000)) /\ Lt(I[2], N(4000))
          THEN {Frac(1, 1000), Frac(-1, 1000), N(1), N(-1)}
          ELSE {Frac(1, 100000), Frac(-1, 100000)})

\* the object between line 748 and line 759 of update_properties()
PrincipalAngleInit ==
    /\ args \in {a \in Constructions : a.condition = "I" /\ a.generate_perimeter}
    /\ perimeter = AutoGeneratePerimeters(args)
    /\ \E I \in InertiaPairs : \E Ixy \in ProductsOfInertia(I) :
          props = [NoProperties EXCEPT !.Ix = I[1], !.Iy = I[2], !.Ixy = Ixy]
    /\ applied = NoApplied
    /\ equilibrium_check_passed = "None"
    /\ v_max = None
    /\ df_perimeter = None
    /\ aux = AuxGeometry(args)
    /\ call = [op |-> "update_properties"]
    /\ outcome = "running"
    /\ nops = 0

\* lines 759-766
PrincipalAngleStep ==
    /\ outcome = "running"
    /\ props' = [props EXCEPT !.theta_p = PrincipalAngle(props.Ix, props.Iy, props.Ixy)]
    /\ outcome' = "returned"
    /\ nops' = nops + 1
    /\ UNCHANGED <<args, perimeter, applied, equilibrium_check_passed, v_max,
                   df_perimeter, aux, call>>

PrincipalAngleSpec == PrincipalAngleInit /\ [][PrincipalAngleStep]_vars

(***************************************************************************)
(* Sections the caller has drawn with add_perimeter(): a cross of two      *)
(* segments through the origin, with or without a pair of short segments   *)
(* off the axes that gives it a product of inertia.  The depth of the      *)
(* vertical segment sets how far Ix is from Iy: equal, within 1e-6, within *)
(* 1e-9 of Ix, or far.  preview() and rotate() are then called on them.    *)
(***************************************************************************)
\* the segment from (x1, y1) to (x2, y2) with the slab depth d
Segment(x1, y1, x2, y2, d) ==
    [start |-> <<N(x1), N(y1)>>, end |-> <<N(x2), N(y2)>>, depth |-> d]

\* a cross of half-length L whose vertical segment has the depth d
Cross(L, d) == <<Segment(0, -L, 0, L, d), Segment(-L, 0, L, 0, N(1))>>

\* two segments of length 2 and depth d, mirrored through the origin, at the
\* height 2 * up
Pair(up, d) == <<Segment(1, 2 * up, 3, 2 * up, d), Segment(-3, -2 * up, -1, -2 * up, d)>>

\* the add_perimeter() calls that draw each section, with its PATCH_SIZE
Drawings ==
    {<<c[1], c[2] \o p>> :
        c \in {<<100, Cross(100, N(1))>>,
               <<100, Cross(100, Frac(1000000001, 1000000000))>>,
               <<100, Cross(100, Frac(999999999, 1000000000))>>,
               <<2, Cross(2, N(1))>>, <<2, Cross(2, Frac(10000001, 10000000))>>},
        p \in {<<>>, Pair(1, N(1)), Pair(-1, N(1)), Pair(1, N(2)), Pair(-1, N(2))}}
    \cup {<<100, Cross(100, N(2))>>, <<2, Cross(2, N(2))>>,
          <<2, Cross(2, N(1)) \o Pair(1, Frac(1, 16000000))>>}

\* add_perimeter() called for the first n segments of segs
RECURSIVE DrawSegments(_, _, _)
DrawSegments(segs, n, PATCH_SIZE) ==
    IF n = 0 THEN EmptyPerimeter
    ELSE AddPerimeter(DrawSegments(segs, n - 1, PATCH_SIZE), segs[n].start, segs[n].end,
                      segs[n].depth, PATCH_SIZE)

\* __init__ with auto_generate_perimeter=False, then the add_perimeter() calls
DrawnInit ==
    /\ \E d \in Drawings :
          /\ args = Args("I", N(2), N(2), N(2), Zero, Zero, Zero, FALSE, N(d[1]))
          /\ perimeter = DrawSegments(d[2], Len(d[2]), N(d[1]))
    /\ props = NoProperties
    /\ applied = NoApplied
    /\ equilibrium_check_passed = "None"
    /\ v_max = None
    /\ df_perimeter = None
    /\ aux = AuxGeometry(args)
    /\ call = [op |-> "add_perimeter"]
    /\ outcome = "returned"
    /\ nops = 0

DrawnNext ==
    \/ \E t \in Angles(props) : RotateCall(t)
    \/ PreviewCall

DrawnSpec == DrawnInit /\ [][DrawnNext]_vars

(***************************************************************************)
(* Properties of solve().                                                  *)
(***************************************************************************)
\* the last call was a solve() that reached the stress loop (lines 1134-1156):
\* it returned, or failed only when the data frame was built
SolveDistributed == call.op = "solve" /\ outcome \in {"returned", "ValueError"}

\* where the row that the last solve() appended for patch i stands in the
\* result lists
RowOf(i) == Len(perimeter["v_total"]) - NPatches(perimeter) + i

\* C1: in solve(), the row recorded for every patch at offset (dx, dy) from the
\* recomputed centroid has v_axial = P/A, v_Mx = Mx_final*dy/Ix,
\* v_My = -My_final*dx/Iy and v_total = v_axial + v_Mx + v_My, each in a column
\* of its own, with Mx_final = gamma_vx*(Mx + Pey), My_final = gamma_vy*(My + Pex)
C1_PatchFormulas ==
    SolveDistributed =>
        /\ applied.Mx_final = Mul(applied.gamma_vx, Add(applied.Mx, applied.Pey))
        /\ applied.My_final = Mul(applied.gamma_vy, Add(applied.My, applied.Pex))
        /\ \A i \in 1..NPatches(perimeter) :
              LET dx == Sub(perimeter["x_centroid"][i], props.x_centroid)
                  dy == Sub(perimeter["y_centroid"][i], props.y_centroid)
                  k  == RowOf(i)
              IN  /\ perimeter["v_axial"][k] = Div(applied.P, props.A)
                  /\ perimeter["v_Mx"][k] = Div(Mul(applied.Mx_final, dy), props.Ix)
                  /\ perimeter["v_My"][k] = Div(Mul(Neg(applied.My_final), dx), props.Iy)
                  /\ perimeter["v_total"][k] =
                         Add(Add(perimeter["v_axial"][k], perimeter["v_Mx"][k]),
                             perimeter["v_My"][k])

\* a solve() has recorded a patch whose three contributions are all finite and
\* not zero
C1_Witness ==
    /\ SolveDistributed
    /\ \E i \in 1..NPatches(perimeter) :
          \A c \in {"v_axial", "v_Mx", "v_My"} :
              IsFinite(perimeter[c][RowOf(i)]) /\ Sign(perimeter[c][RowOf(i)]) # 0

\* the last call was a solve() that returned: its rows were appended to empty
\* result lists (no earlier solve() left rows), one per patch
SolveReturned == call.op = "solve" /\ outcome = "returned"

\* the three sums of lines 1165-1167 equal the adjusted applied load
InEquilibrium ==
    /\ Sum(perimeter["Fz"]) = applied.P
    /\ Sum(perimeter["Mxi"]) = applied.Mx_final
    /\ Sum(perimeter["Myi"]) = applied.My_final

\* x is a finite number greater than zero
Positive(x) == IsFinite(x) /\ Sign(x) > 0

\* C2 as stated: for a freshly built section in principal orientation
\* (recomputed Ixy = 0) and every load, the results of solve() are in
\* equilibrium with the adjusted load and equilibrium_check_passed is True
C2_Original ==
    (SolveReturned /\ props.Ixy = Zero) =>
        (InEquilibrium /\ equilibrium_check_passed = "True")

\* C2 amended: the same for a section whose recomputed A, Ix and Iy are all
\* greater than zero (a section on one line, or of no area, has none)
C2_PrincipalEquilibrium ==
    (/\ SolveReturned
     /\ props.Ixy = Zero
     /\ Positive(props.A) /\ Positive(props.Ix) /\ Positive(props.Iy)) =>
        (InEquilibrium /\ equilibrium_check_passed = "True")

\* a section with Ixy = 0 and A, Ix, Iy > 0 was solved under a force and two
\* moments that are not zero, and was found in equilibrium
C2_Witness ==
    /\ SolveReturned
    /\ props.Ixy = Zero
    /\ Positive(props.A) /\ Positive(props.Ix) /\ Positive(props.Iy)
    /\ Sign(applied.P) # 0 /\ Sign(applied.Mx_final) # 0 /\ Sign(applied.My_final) # 0
    /\ equilibrium_check_passed = "True"

\* abs(sum - value) < 0.1, the test of lines 1168-1173 on one component
ResidualOK(sum, value) == Lt(Abs(Sub(sum, value)), Frac(1, 10))

\* the three residuals over the result lists as they stand are within 0.1
ResidualsOK ==
    /\ ResidualOK(Sum(perimeter["Fz"]), applied.P)
    /\ ResidualOK(Sum(perimeter["Mxi"]), applied.Mx_final)
    /\ ResidualOK(Sum(perimeter["Myi"]), applied.My_final)

\* every result list holds one row per patch
OneRowPerPatch == \A c \in ResultColumns : Len(perimeter[c]) = NPatches(perimeter)

\* C3: after solve() completes, equilibrium_check_passed is True if and only
\* if |sum(Fz) - P| < 0.1, |sum(Mxi) - Mx_final| < 0.1 and
\* |sum(Myi) - My_final| < 0.1, the sums taken over the rows of the patches
C3_VerdictIffResiduals ==
    SolveReturned => (OneRowPerPatch /\ (equilibrium_check_passed = "True" <=> ResidualsOK))

\* a solve() returned the verdict False on finite results: some residual is a
\* number outside the tolerance
C3_Witness ==
    /\ SolveReturned
    /\ equilibrium_check_passed = "False"
    /\ \A i \in 1..NPatches(perimeter) : IsFinite(perimeter["Fz"][i])
    /\ ~ResidualsOK

\* C4 as stated: when a component is outside the tolerance at the end of
\* solve(), the failure is raised as an error (EquilibriumViolation): the
\* call does not return normally
C4_Original == (SolveDistributed /\ ~ResidualsOK) => outcome # "returned"

\* the last call is a solve() that none of the errors raised before the stress
\* loop has stopped: the RuntimeError of line 1058 and the ZeroDivisionError
\* of update_properties()
SolvePastGuards == call.op = "solve" /\ outcome \notin {"RuntimeError", "ZeroDivisionError"}

\* C4 amended: when a component is outside the tolerance at the end of solve(),
\* nothing is raised for it: the verdict False is recorded and solve() goes on to
\* build the table, returning normally whenever the lists hold a row per patch
C4_FailureRecorded ==
    (SolvePastGuards /\ ~ResidualsOK) =>
        /\ equilibrium_check_passed = "False"
        /\ outcome = (IF OneRowPerPatch THEN "returned" ELSE "ValueError")

\* a first solve() found the section out of equilibrium and returned
C4_Witness ==
    /\ SolveReturned
    /\ ~ResidualsOK
    /\ equilibrium_check_passed = "False"
    /\ df_perimeter = perimeter
    /\ ~call.auto_rotate

\* C5: when the equilibrium check fails in solve(), solve() still returns the
\* full result table, one row per patch, with the verdict False
C5_Original ==
    (SolveDistributed /\ equilibrium_check_passed = "False") =>
        (outcome = "returned" /\ OneRowPerPatch /\ df_perimeter = perimeter)

\* C6: every solve() call produces a fresh result set: after any number of
\* consecutive solve() calls the result columns hold one row per current
\* patch, computed from the latest load only, and the call returns normally
C6_Original ==
    SolveDistributed =>
        /\ outcome = "returned"
        /\ OneRowPerPatch
        /\ \A i \in 1..NPatches(perimeter) :
              perimeter["v_axial"][i] = Div(applied.P, props.A)

\* the step is a call of solve()
SolveStep == nops' = nops + 1 /\ call'.op = "solve"

\* the step is a solve() that reached the stress loop
SolveStepDistributed == SolveStep /\ outcome' \in {"returned", "ValueError"}

\* C7: solve() on a section built with auto_generate_perimeter=False raises
\* whenever gamma_vx or gamma_vy is left as "auto", and leaves no partial
\* result: no row appended, no geometry rotated, the verdict, the gammas and
\* the final moments as they were (the error is the RuntimeError of line 1058,
\* or the ZeroDivisionError of update_properties() when there is no patch)
C7_CustomNeedsGamma ==
    [][(/\ SolveStep
        /\ ~args.generate_perimeter
        /\ (call'.gamma_vx = Auto \/ call'.gamma_vy = Auto)) =>
           /\ outcome' = (IF NPatches(perimeter) = 0
                          THEN "ZeroDivisionError" ELSE "RuntimeError")
           /\ perimeter' = perimeter
           /\ equilibrium_check_passed' = equilibrium_check_passed
           /\ applied' = applied
           /\ v_max' = v_max
           /\ df_perimeter' = df_perimeter]_vars

\* a custom perimeter with patches was solved with one gamma given and the
\* other left as "auto", and the call raised
C7_Witness ==
    /\ call.op = "solve"
    /\ ~args.generate_perimeter
    /\ NPatches(perimeter) > 0
    /\ call.gamma_vx # Auto /\ call.gamma_vy = Auto
    /\ outcome = "RuntimeError"

\* the step is a solve() under a load whose every component is zero
ZeroLoadStep ==
    SolveStep /\ call'.P = Zero /\ call'.Mx = Zero /\ call'.My = Zero

\* C8 as stated: solve() rejects a load case of all zeros with an error
\* (NoAppliedLoad), before any rotation or stress computation: the call does
\* not return normally, and it rotates nothing and appends no result row
C8_Original ==
    [][ZeroLoadStep => (outcome' # "returned" /\ perimeter' = perimeter)]_vars

\* C8 amended: a load of all zeros is not rejected.  solve() raises for it only
\* what it raises for any load (no patch; custom perimeter with an "auto"
\* gamma) and otherwise stores P = Mx = My = 0 and appends one row per patch,
\* every entry of which is zero when A, Ix and Iy are greater than zero
C8_ZeroLoadSolved ==
    [][ZeroLoadStep =>
        IF NPatches(perimeter) = 0 THEN outcome' = "ZeroDivisionError"
        ELSE IF ~args.generate_perimeter
                /\ (call'.gamma_vx = Auto \/ call'.gamma_vy = Auto)
        THEN outcome' = "RuntimeError"
        ELSE /\ outcome' \in {"returned", "ValueError"}
             /\ applied'.P = Zero /\ applied'.Mx = Zero /\ applied'.My = Zero
             /\ \A c \in ResultColumns :
                   /\ Len(perimeter'[c]) = Len(perimeter[c]) + NPatches(perimeter)
                   /\ (Positive(props'.A) /\ Positive(props'.Ix) /\ Positive(props'.Iy)) =>
                          \A i \in (Len(perimeter[c]) + 1)..Len(perimeter'[c]) :
                              perimeter'[c][i] = Zero]_vars

\* a section with A, Ix, Iy > 0 was solved under the load of all zeros: the
\* call returned rows of zeros and the verdict True
C8_Witness ==
    /\ SolveReturned
    /\ call.P = Zero /\ call.Mx = Zero /\ call.My = Zero
    /\ Positive(props.A) /\ Positive(props.Ix) /\ Positive(props.Iy)
    /\ NPatches(perimeter) > 0
    /\ \A i \in 1..NPatches(perimeter) : perimeter["v_total"][i] = Zero
    /\ equilibrium_check_passed = "True"

\* what update_properties() at line 1052 finds for theta_p in this step
ThetaBefore == UpdateProperties(perimeter, props).props.theta_p

\* the gamma the formulas give in this step: lines 1064-1082 on the patches
\* before the rotation, lines 1101-1111 on the patches after it
GammaFormula == GammaAfter(args, perimeter', GammaBefore(args, perimeter))

\* C9: a caller-supplied gamma always overrides the formula, independently
\* per axis, for every support condition, with or without stud rails, rotated
\* or not; the formula value is used only for an axis left as "auto"
C9_GammaOverride ==
    [][SolveStepDistributed =>
        /\ applied'.gamma_vx =
              (IF call'.gamma_vx = Auto THEN GammaFormula[1] ELSE call'.gamma_vx)
        /\ applied'.gamma_vy =
              (IF call'.gamma_vy = Auto THEN GammaFormula[2] ELSE call'.gamma_vy)]_vars

\* a corner section with stud rails was solved with gamma_vx given and
\* gamma_vy left as "auto": gamma_vx is the caller's and differs from the
\* formula's, gamma_vy is a number
C9_Witness ==
    /\ SolveDistributed
    /\ args.has_studrail /\ args.condition \in CornerConditions
    /\ call.gamma_vx # Auto /\ call.gamma_vy = Auto
    /\ applied.gamma_vx = call.gamma_vx
    /\ applied.gamma_vx # GammaAfter(args, perimeter, <<None, None>>)[1]
    /\ IsFinite(applied.gamma_vy)

\* the six coordinate columns of two tables agree
SameCoordinates(p, q) ==
    \A c \in {"x_centroid", "y_centroid", "x_start", "y_start", "x_end", "y_end"} :
        p[c] = q[c]

\* C10: in solve(), when |theta_p| > 0.1 degrees and auto_rotate is true, the
\* geometry and the moment vector (Mx, My) are both rotated by theta_p with
\* the same matrix, exactly once, before the eccentricity moments and the
\* final moments are computed; otherwise neither is rotated
C10_RotationOnce ==
    [][SolveStepDistributed =>
        /\ IF NeedsRotation(ThetaBefore) /\ call'.auto_rotate
           THEN /\ SameCoordinates(perimeter', RotatePatches(perimeter, ThetaBefore))
                /\ applied'.Mx = RotX(Cos(ThetaBefore), Sin(ThetaBefore),
                                      call'.Mx, call'.My)
                /\ applied'.My = RotY(Cos(ThetaBefore), Sin(ThetaBefore),
                                      call'.Mx, call'.My)
           ELSE /\ SameCoordinates(perimeter', perimeter)
                /\ applied'.Mx = call'.Mx
                /\ applied'.My = call'.My
        /\ applied'.Pex = (IF call'.consider_Pe
                           THEN Mul(call'.P, props'.x_centroid) ELSE Zero)
        /\ applied'.Pey = (IF call'.consider_Pe
                           THEN Mul(Neg(call'.P), props'.y_centroid) ELSE Zero)
        /\ props' = UpdateProperties(perimeter', NoProperties).props
        /\ applied'.Mx_final = Mul(applied'.gamma_vx, Add(applied'.Mx, applied'.Pey))
        /\ applied'.My_final = Mul(applied'.gamma_vy, Add(applied'.My, applied'.Pex))]_vars

\* a solve() with auto_rotate has turned a section and moments that are not
\* zero: the stored moments differ from the ones given
C10_Witness ==
    /\ SolveDistributed
    /\ call.auto_rotate
    /\ Sign(call.Mx) # 0 /\ Sign(call.My) # 0
    /\ applied.Mx # call.Mx /\ applied.My # call.My
    /\ props.Ixy = Zero

(***************************************************************************)
(* Properties of the patches and of the operations that change them.       *)
(***************************************************************************)
\* two tables hold the same patches: the nine geometry lists agree
SameGeometry(p, q) == \A c \in GeometryColumns : p[c] = q[c]

\* C11: solve() never mutates the patches except through the auto-rotation:
\* in every solve() the patch count and the lengths, depths and areas are
\* kept, and with auto_rotate=False or |theta_p| <= 0.1 the start, end and
\* centroid of every patch are kept too
C11_SolveKeepsPatches ==
    [][SolveStep =>
        /\ NPatches(perimeter') = NPatches(perimeter)
        /\ \A c \in {"length", "depth", "area"} : perimeter'[c] = perimeter[c]
        /\ (\/ ~call'.auto_rotate
            \/ NPatches(perimeter) = 0
            \/ ~NeedsRotation(ThetaBefore)) => SameGeometry(perimeter', perimeter)]_vars

\* a solve() with auto_rotate=False has returned on a section whose principal
\* axes are not the x and y axes
C11_Witness ==
    /\ SolveReturned
    /\ ~call.auto_rotate
    /\ NeedsRotation(props.theta_p)
    /\ NPatches(perimeter) > 1

\* the step is an add_opening()
AddOpeningStep == nops' = nops + 1 /\ call'.op = "add_opening"

\* the four corners of the opening of the call c
Corners(c) ==
    {<<c.xo, c.yo>>, <<Add(c.xo, c.width), c.yo>>,
     <<Add(c.xo, c.width), Add(c.yo, c.depth)>>, <<c.xo, Add(c.yo, c.depth)>>}

\* the point p has a polar angle about (0, 0) strictly between the least and
\* the greatest polar angle of the corners cs
StrictlyBetween(p, cs) ==
    /\ ~IsNaN(p[1]) /\ ~IsNaN(p[2])
    /\ \E lo \in cs : (\A q \in cs : ~AngleLt(q, lo)) /\ AngleLt(lo, p)
    /\ \E hi \in cs : (\A q \in cs : ~AngleLt(hi, q)) /\ AngleLt(p, hi)

\* the indices of the patches of per outside the shadow of the corners cs
Outside(per, cs) ==
    {i \in 1..NPatches(per) :
        ~StrictlyBetween(<<per["x_centroid"][i], per["y_centroid"][i]>>, cs)}

\* the k-th least member of the set of indices S
Kth(S, k) == CHOOSE i \in S : Cardinality({j \in S : j <= i}) = k

\* C12: add_opening(xo, yo, width, depth) deletes exactly the patches whose
\* centroid has a polar angle atan2(y, x) about (0, 0) strictly between the
\* least and the greatest polar angle of the four corners of the opening;
\* every other patch is kept, in its order, with its start, end, centroid,
\* length, depth and area, and the call always returns
C12_OpeningShadow ==
    [][AddOpeningStep =>
        /\ outcome' = "returned"
        /\ \A c \in GeometryColumns :
              perimeter'[c] =
                 [k \in 1..Cardinality(Outside(perimeter, Corners(call'))) |->
                     perimeter[c][Kth(Outside(perimeter, Corners(call')), k)]]]_vars

\* an opening to the east of the column has removed a patch and left two or
\* more, one of them above its shadow
C12_Witness ==
    /\ call.op = "add_opening"
    /\ call.xo = N(2)
    /\ args.generate_perimeter
    /\ NPatches(perimeter) >= 2
    /\ NPatches(perimeter) < NPatches(AutoGeneratePerimeters(args))
    /\ \E i \in 1..NPatches(perimeter) :
          /\ Sign(perimeter["x_centroid"][i]) = 0
          /\ Sign(perimeter["y_centroid"][i]) > 0

\* the step is an add_perimeter()
AddPerimeterStep == nops' = nops + 1 /\ call'.op = "add_perimeter"

\* the square of the distance between the points p and q
DistanceSquared(p, q) == Add(Sq(Sub(q[1], p[1])), Sq(Sub(q[2], p[2])))

\* the lengths of the patches the step has appended
AppendedLengths ==
    SubSeq(perimeter'["length"], NPatches(perimeter) + 1, NPatches(perimeter'))

\* n is max(1, floor(l / s))
IsPatchCount(n, l, s) ==
    /\ n >= 1
    /\ Lt(l, Mul(N(n + 1), s))
    /\ n > 1 => Le(Mul(N(n), s), l)

C15_Original ==
    [][(AddPerimeterStep /\ call'.start = call'.end) =>
        (outcome' # "returned" /\ perimeter' = perimeter)]_vars

\* patch i of the table per has area = length * depth, and its centroid is
\* the midpoint of its start and its end
WellFormedPatch(per, i) ==
    /\ per["area"][i] = Mul(per["length"][i], per["depth"][i])
    /\ Mul(N(2), per["x_centroid"][i]) = Add(per["x_start"][i], per["x_end"][i])
    /\ Mul(N(2), per["y_centroid"][i]) = Add(per["y_start"][i], per["y_end"][i])

\* C14: after any sequence of add_perimeter, add_opening, rotate and solve
\* calls, every patch held by the section has area = length * depth with
\* area > 0, and its centroid is the midpoint of its start and end points
C14_Original ==
    \A i \in 1..NPatches(perimeter) :
        WellFormedPatch(perimeter, i) /\ Sign(perimeter["area"][i]) > 0

(***************************************************************************)
(* Properties of update_properties().                                      *)
(***************************************************************************)
\* the last call has run update_properties() on the patches now held, and
\* there are patches
Recomputed == call.op \in {"preview", "rotate", "solve"} /\ NPatches(perimeter) > 0

\* all x (all y) coordinates of the patches: centroids, starts and ends
AllX == perimeter["x_centroid"] \o perimeter["x_start"] \o perimeter["x_end"]

AllY == perimeter["y_centroid"] \o perimeter["y_start"] \o perimeter["y_end"]

\* sum(A_i * (u_i - u0) * (w_i - w0)) over the patches
AreaMoment(u, u0, w, w0) ==
    Sum([i \in 1..NPatches(perimeter) |->
            Mul(Mul(perimeter["area"][i], Sub(perimeter[u][i], u0)),
                Sub(perimeter[w][i], w0))])

\* C16: update_properties() sets, from the current patches only, A = sum(A_i),
\* L = sum(length_i), xc = sum(x_i*A_i)/A, yc = sum(y_i*A_i)/A,
\* Ix = sum(A_i*(y_i-yc)^2), Iy = sum(A_i*(x_i-xc)^2),
\* Ixy = sum(A_i*(x_i-xc)*(y_i-yc)), Iz = Ix + Iy, and each section modulus as
\* I over the distance from the centroid to the extreme coordinate among all
\* patch centroids, starts and ends
C16_PropertyFormulas ==
    Recomputed =>
        /\ props.A = Sum(perimeter["area"])
        /\ props.L = Sum(perimeter["length"])
        /\ props.x_centroid =
              Div(Sum([i \in 1..NPatches(perimeter) |->
                          Mul(perimeter["x_centroid"][i], perimeter["area"][i])]), props.A)
        /\ props.y_centroid =
              Div(Sum([i \in 1..NPatches(perimeter) |->
                          Mul(perimeter["y_centroid"][i], perimeter["area"][i])]), props.A)
        /\ props.Ix = AreaMoment("y_centroid", props.y_centroid, "y_centroid", props.y_centroid)
        /\ props.Iy = AreaMoment("x_centroid", props.x_centroid, "x_centroid", props.x_centroid)
        /\ props.Ixy = AreaMoment("y_centroid", props.y_centroid, "x_centroid", props.x_centroid)
        /\ props.Iz = Add(props.Ix, props.Iy)
        /\ props.Sx1 = Div(props.Ix, Abs(Sub(Max(AllY), props.y_centroid)))
        /\ props.Sx2 = Div(props.Ix, Abs(Sub(Min(AllY), props.y_centroid)))
        /\ props.Sy1 = Div(props.Iy, Abs(Sub(Max(AllX), props.x_centroid)))
        /\ props.Sy2 = Div(props.Iy, Abs(Sub(Min(AllX), props.x_centroid)))

\* preview() has computed the properties of a section of several patches
\* whose product of inertia is not zero
C16_Witness ==
    /\ call.op = "preview"
    /\ NPatches(perimeter) > 2
    /\ Positive(props.Ix) /\ Positive(props.Iy)
    /\ Sign(props.Ixy) # 0
    /\ IsFinite(props.Sx1) /\ IsFinite(props.Sy2)

\* the step is a call that runs update_properties(): preview(), rotate() or
\* solve()
RecomputeStep == nops' = nops + 1 /\ call'.op \in {"preview", "rotate", "solve"}

\* C17: recomputing the properties of a section whose total patch area is
\* zero fails with an error, in every call that recomputes, and leaves no
\* derived attribute half-updated
C17_Original ==
    [][(RecomputeStep /\ Sum(perimeter["area"]) = Zero) =>
        (outcome' # "returned" /\ props' = props)]_vars

(***************************************************************************)
(* Properties of rotate().                                                 *)
(***************************************************************************)
\* the step is a rotate()
RotateStep == nops' = nops + 1 /\ call'.op = "rotate"

\* q is the point p turned by the angle t
Turned(p, q, t) ==
    /\ q[1] = Sub(Mul(Cos(t), p[1]), Mul(Sin(t), p[2]))
    /\ q[2] = Add(Mul(Sin(t), p[1]), Mul(Cos(t), p[2]))

\* qs is the list of the points of ps, each turned by the angle t
AllTurned(ps, qs, t) ==
    /\ Len(qs) = Len(ps)
    /\ \A i \in 1..Len(ps) : Turned(ps[i], qs[i], t)

\* hs is the list of the lists of points of gs, each point turned by t
GroupsTurned(gs, hs, t) ==
    /\ Len(hs) = Len(gs)
    /\ \A k \in 1..Len(gs) : AllTurned(gs[k], hs[k], t)

\* the points named by the columns x and y of the table per
PointsOf(per, x, y) == [i \in 1..NPatches(per) |-> <<per[x][i], per[y][i]>>]

\* C18: rotate(angle) applies the same rotation matrix R(angle) to the start,
\* end and centroid of every patch and to every point kept beside them
\* (openings, opening guide points, stud rails, column outline, slab-edge
\* points and lines), and leaves the number and order of the patches and
\* every patch's length, depth and area unchanged
C18_RotateAll ==
    [][RotateStep =>
        /\ NPatches(perimeter') = NPatches(perimeter)
        /\ \A c \in {"length", "depth", "area"} : perimeter'[c] = perimeter[c]
        /\ AllTurned(PointsOf(perimeter, "x_centroid", "y_centroid"),
                     PointsOf(perimeter', "x_centroid", "y_centroid"), call'.angle)
        /\ AllTurned(PointsOf(perimeter, "x_start", "y_start"),
                     PointsOf(perimeter', "x_start", "y_start"), call'.angle)
        /\ AllTurned(PointsOf(perimeter, "x_end", "y_end"),
                     PointsOf(perimeter', "x_end", "y_end"), call'.angle)
        /\ GroupsTurned(aux.openings, aux'.openings, call'.angle)
        /\ GroupsTurned(aux.openings_draw_pts, aux'.openings_draw_pts, call'.angle)
        /\ GroupsTurned(aux.studrail_pts, aux'.studrail_pts, call'.angle)
        /\ AllTurned(aux.col_pts, aux'.col_pts, call'.angle)
        /\ AllTurned(aux.slabedge_pts, aux'.slabedge_pts, call'.angle)
        /\ GroupsTurned(aux.slabedge_lines, aux'.slabedge_lines, call'.angle)]_vars

\* a corner section with stud rails and an opening has been turned by half a
\* turn: its first patch and its slab edge lie on the opposite side
C18_Witness ==
    /\ call.op = "rotate" /\ call.angle = HalfTurn
    /\ args.condition = "NW" /\ args.has_studrail
    /\ Len(aux.openings) = 1 /\ Len(aux.openings_draw_pts) = 1
    /\ Len(aux.studrail_pts) = 4 /\ Len(aux.slabedge_lines) = 2
    /\ aux.slabedge_lines[1][1] = <<N(2), N(-2)>>
    /\ aux.col_pts[1] = <<N(1), N(1)>>
    /\ NPatches(perimeter) > 0

\* the step is a preview(), which runs update_properties() and changes
\* nothing else of the section
PreviewStep == nops' = nops + 1 /\ call'.op = "preview"

\* the call before ended with update_properties() on the patches now held
JustRecomputed == call.op \in {"preview", "rotate", "solve"}

\* C19: update_properties() is idempotent: run a second time with no
\* add_perimeter, add_opening or rotate in between, it leaves every derived
\* attribute (A, L, x_centroid, y_centroid, Ix, Iy, Ixy, Iz, Sx1, Sx2, Sy1,
\* Sy2, theta_p) at the value it had and changes no patch
C19_Idempotent ==
    [][(JustRecomputed /\ PreviewStep) =>
        (props' = props /\ perimeter' = perimeter)]_vars

\* update_properties() has run a second time, in a second preview(), on a
\* section whose principal axes are not the x and y axes
C19_Witness ==
    /\ call.op = "preview"
    /\ nops = 2
    /\ NPatches(perimeter) = NPatches(AutoGeneratePerimeters(args))
    /\ NPatches(perimeter) > 2
    /\ applied = NoApplied
    /\ aux = AuxGeometry(args)
    /\ NeedsRotation(props.theta_p)

(***************************************************************************)
(* The life of the verdict.                                                *)
(***************************************************************************)
\* C20: the solver goes UNSOLVED -> SOLVING -> SOLVED or FAILED and both end
\* states are terminal: the verdict equilibrium_check_passed is unset until a
\* solve() sets it, and once it is set no later call on the same section,
\* another solve() included, changes it
C20_Original ==
    [][/\ equilibrium_check_passed # "None" =>
              equilibrium_check_passed' = equilibrium_check_passed
       /\ (equilibrium_check_passed = "None" /\ equilibrium_check_passed' # "None") =>
              SolveStep]_vars

(***************************************************************************)
(* Properties of the stresses.                                             *)
(***************************************************************************)
\* the last call was a solve() with consider_Pe=False that reached the stress
\* loop, on the generated interior perimeter with no opening added
InteriorSolved ==
    /\ SolveDistributed
    /\ ~call.consider_Pe
    /\ args.condition = "I" /\ args.generate_perimeter /\ args.width = args.height
    /\ Len(aux.openings) = 0

\* |P/A + Mx*dy/Ix - My*dx/Iy| at the offset (dx, dy) from the centroid
StressAt(P, Mx, My, dx, dy) ==
    Abs(Sub(Add(Div(P, props.A), Div(Mul(Mx, dy), props.Ix)), Div(Mul(My, dx), props.Iy)))

\* the offsets of the four extreme-fibre corners of the perimeter
CornerOffsets ==
    {<<Sub(x, props.x_centroid), Sub(y, props.y_centroid)>> :
        x \in {Max(AllX), Min(AllX)}, y \in {Max(AllY), Min(AllY)}}

\* the offsets of the patch centroids
PatchOffsets ==
    {<<Sub(perimeter["x_centroid"][i], props.x_centroid),
       Sub(perimeter["y_centroid"][i], props.y_centroid)>> : i \in 1..NPatches(perimeter)}

\* v is the greatest of StressAt over the offsets in D, under the moments Mx, My
IsGreatestStress(v, D, Mx, My) ==
    /\ \E o \in D : StressAt(call.P, Mx, My, o[1], o[2]) = v
    /\ \A o \in D : Le(StressAt(call.P, Mx, My, o[1], o[2]), v)

\* C21 as stated: for a square interior perimeter without openings solved
\* with consider_Pe=False, the residuals are below 0.1 and v_max is the
\* greatest |P/A + Mx*dy/Ix - My*dx/Iy| over the four corners of the
\* perimeter, under the moments as applied
C21_Original ==
    InteriorSolved =>
        (ResidualsOK /\ IsGreatestStress(v_max, CornerOffsets, call.Mx, call.My))

\* C21 amended: whenever that solve() returns, the residuals are below 0.1 and
\* v_max is the greatest |P/A + Mx_final*dy/Ix - My_final*dx/Iy| over the
\* centroids of the patches, with Mx_final = gamma_vx*Mx and
\* My_final = gamma_vy*My
C21_PatchMaximum ==
    (InteriorSolved /\ outcome = "returned") =>
        /\ ResidualsOK
        /\ IsGreatestStress(v_max, PatchOffsets, Mul(applied.gamma_vx, call.Mx),
                            Mul(applied.gamma_vy, call.My))

\* a square interior perimeter was solved under moments, consider_Pe=False:
\* the stresses of its patches differ and v_max is the greatest of them
C21_Witness ==
    /\ InteriorSolved /\ outcome = "returned"
    /\ Sign(call.Mx) # 0 /\ Sign(call.My) # 0
    /\ \E i \in 1..NPatches(perimeter) : Abs(perimeter["v_total"][i]) = v_max
    /\ \E i \in 1..NPatches(perimeter) : Abs(perimeter["v_total"][i]) # v_max

\* the last call was a solve() that returned, under a load with P # 0 and
\* Mx = My = 0, with consider_Pe=False or on a section whose centroid is the
\* origin
PureAxialSolved ==
    /\ SolveReturned
    /\ call.P # Zero /\ call.Mx = Zero /\ call.My = Zero
    /\ ~call.consider_Pe \/ (props.x_centroid = Zero /\ props.y_centroid = Zero)

\* every patch has the stress P/A, none of it from the moments
UniformStress ==
    \A i \in 1..NPatches(perimeter) :
        /\ perimeter["v_total"][RowOf(i)] = Div(call.P, props.A)
        /\ perimeter["v_Mx"][RowOf(i)] = Zero
        /\ perimeter["v_My"][RowOf(i)] = Zero

\* C22 as stated: under a pure axial load (P # 0, Mx = My = 0) on a section
\* whose centroid is the origin, or with consider_Pe=False, solve() gives
\* every patch the stress v_total = P/A with v_Mx = v_My = 0, and the
\* equilibrium check passes
C22_Original ==
    PureAxialSolved => (UniformStress /\ equilibrium_check_passed = "True")

\* C22 amended: the same, on a section with A, Ix and Iy greater than zero
C22_UniformAxial ==
    (PureAxialSolved /\ Positive(props.A) /\ Positive(props.Ix) /\ Positive(props.Iy)) =>
        (UniformStress /\ equilibrium_check_passed = "True")

\* an interior perimeter of four patches was solved under P = -2 alone
C22_Witness ==
    /\ PureAxialSolved
    /\ Positive(props.A) /\ Positive(props.Ix) /\ Positive(props.Iy)
    /\ NPatches(perimeter) = 4
    /\ perimeter["v_total"][1] = Div(N(-2), props.A)
    /\ IsFinite(perimeter["v_total"][1])


(***************************************************************************)
(* Properties of solve() after the section was changed.                    *)
(***************************************************************************)
\* sum(A_i * u_i) / sum(A_i) over the patches as they stand
CentroidNow(u) ==
    Div(Sum([i \in 1..NPatches(perimeter) |->
                Mul(perimeter[u][i], perimeter["area"][i])]), Sum(perimeter["area"]))

\* the stress of patch i from the loads in use and the patches as they stand
StressNow(i) ==
    LET xc == CentroidNow("x_centroid")
        yc == CentroidNow("y_centroid")
    IN  Add(Add(Div(applied.P, Sum(perimeter["area"])),
                Div(Mul(applied.Mx_final, Sub(perimeter["y_centroid"][i], yc)),
                    AreaMoment("y_centroid", yc, "y_centroid", yc))),
            Div(Mul(Neg(applied.My_final), Sub(perimeter["x_centroid"][i], xc)),
                AreaMoment("x_centroid", xc, "x_centroid", xc)))

\* C23: after any add_perimeter, add_opening and rotate calls, the A,
\* x_centroid, y_centroid, Ix and Iy that the stresses of solve() are
\* computed from are those of the patches as they stand after the last change,
\* the rotation made by solve() itself included; no value from before a
\* change is used
C23_FreshProperties ==
    SolveDistributed =>
        \A i \in 1..NPatches(perimeter) :
            perimeter["v_total"][RowOf(i)] = StressNow(i)

\* a generated perimeter was turned by rotate(180), then solve() turned it to
\* its principal axes, 45 degrees away, and computed stresses
C23_Witness ==
    /\ SolveDistributed
    /\ nops = 2
    /\ args.generate_perimeter
    /\ \E t \in {N(1), N(-1)} :
          SameCoordinates(perimeter,
                          RotatePatches(RotatePatches(AutoGeneratePerimeters(args),
                                                      HalfTurn), t))
    /\ call.auto_rotate /\ applied.Mx # call.Mx
    /\ Sign(applied.Mx_final) # 0 /\ Sign(applied.My_final) # 0
    /\ IsFinite(perimeter["v_total"][RowOf(1)])

\* C24: in solve(), Pex = P * x_centroid and Pey = -P * y_centroid with the
\* centroid of the patches as they stand after any rotation solve() made, both
\* are 0 when consider_Pe is false, and Pex is added to the My in use and Pey
\* to the Mx in use before gamma is applied
C24_EccentricityMoments ==
    SolveDistributed =>
        /\ applied.Pex = (IF call.consider_Pe
                          THEN Mul(call.P, CentroidNow("x_centroid")) ELSE Zero)
        /\ applied.Pey = (IF call.consider_Pe
                          THEN Mul(Neg(call.P), CentroidNow("y_centroid")) ELSE Zero)
        /\ applied.My_final = Mul(applied.gamma_vy, Add(applied.My, applied.Pex))
        /\ applied.Mx_final = Mul(applied.gamma_vx, Add(applied.Mx, applied.Pey))

\* solve() with consider_Pe has turned a section whose centroid is off the
\* origin: an eccentricity moment is not zero and changes the final moment
C24_Witness ==
    /\ SolveDistributed
    /\ call.consider_Pe /\ call.auto_rotate
    /\ applied.Mx # call.Mx
    /\ Sign(applied.Pey) # 0 \/ Sign(applied.Pex) # 0
    /\ \/ applied.Mx_final # Mul(applied.gamma_vx, applied.Mx)
       \/ applied.My_final # Mul(applied.gamma_vy, applied.My)

\* the step is a solve() on a corner section that came to the stresses
CornerSolveStep == SolveStepDistributed /\ args.condition \in CornerConditions

\* the gamma in use after the step is g on every axis left as "auto"
AutoGammaIs(g) ==
    /\ call'.gamma_vx = Auto => applied'.gamma_vx = g[1]
    /\ call'.gamma_vy = Auto => applied'.gamma_vy = g[2]

\* C25 as stated: for every corner condition (NW, NE, SW, SE), with or without
\* stud rails, the gamma_vx and gamma_vy that solve() computes itself come
\* from lx, ly of the patches AFTER the rotation solve() makes, not from the
\* unrotated perimeter
C25_Original ==
    [][CornerSolveStep =>
        AutoGammaIs(IF args.has_studrail
                    THEN GammaAfter(args, perimeter', <<None, None>>)
                    ELSE GammaBefore(args, perimeter'))]_vars

\* C25 amended: for a corner condition with stud rails they come from lx, ly
\* of the patches after the rotation; without stud rails they come from lx,
\* ly of the patches as they were before it
C25_CornerGamma ==
    [][CornerSolveStep =>
        AutoGammaIs(IF args.has_studrail
                    THEN GammaAfter(args, perimeter', <<None, None>>)
                    ELSE GammaBefore(args, perimeter))]_vars

\* solve() has turned a corner section without stud rails and computed both
\* gamma itself: they are not what lx, ly of the turned patches give
C25_Witness ==
    /\ SolveDistributed
    /\ args.condition \in CornerConditions /\ ~args.has_studrail
    /\ call.gamma_vx = Auto /\ call.gamma_vy = Auto
    /\ call.auto_rotate /\ applied.Mx # call.Mx
    /\ IsFinite(applied.gamma_vx) /\ IsFinite(applied.gamma_vy)
    /\ applied.gamma_vx # GammaBefore(args, perimeter)[1]


(***************************************************************************)
(* Properties of the principal angle.                                      *)
(***************************************************************************)
\* update_properties() has chosen theta_p for the Ix, Iy and Ixy it was given
AngleChosen == call.op = "update_properties" /\ outcome = "returned"

\* 0.5 * atan(Ixy / ((Ix - Iy)/2)), as a tangent
MohrAngle == HalfAtan(Div(props.Ixy, Half(Sub(props.Ix, props.Iy))))

\* theta_p lies in (-45, 45]: its tangent lies in (-1, 1]
InHalfOpenQuadrant == Gt(props.theta_p, N(-1)) /\ Le(props.theta_p, N(1))

\* |Ix - Iy| is at most 1e-6, or at most 1e-9 of the larger of |Ix| and |Iy|
InertiasClose ==
    LET d == Abs(Sub(props.Ix, props.Iy))
    IN  \/ Le(d, Frac(1, 1000000))
        \/ Le(Div(d, Abs(props.Ix)), Frac(1, 1000000000))
        \/ Le(Div(d, Abs(props.Iy)), Frac(1, 1000000000))

OwnAngleStep ==
    \/ RotateStep /\ call'.angle = ThetaBefore /\ outcome' = "returned"
    \/ SolveStepDistributed /\ call'.auto_rotate /\ NeedsRotation(ThetaBefore)

NearlyEqualInertias(pr) ==
    LET d == Abs(Sub(pr.Ix, pr.Iy))
    IN  /\ Gt(d, Frac(1, 1000000))
        /\ \/ Le(Div(d, Abs(pr.Ix)), Frac(1, 1000000000))
           \/ Le(Div(d, Abs(pr.Iy)), Frac(1, 1000000000))

StartOf(per, i) == <<per["x_start"][i], per["y_start"][i]>>

EndOf(per, i) == <<per["x_end"][i], per["y_end"][i]>>

\* C28: the patches appended by one add_perimeter(start, end, depth) divide
\* the segment into equal parts, in order: the first starts at start, the last
\* ends at end, each ends where the next starts, each carries the given
\* depth; the patches held before stay as they were, ahead of the new ones
C28_OrderedPartition ==
    [][AddPerimeterStep =>
        LET m == NPatches(perimeter)
            n == NPatches(perimeter') - m
        IN  /\ n >= 1
            /\ StartOf(perimeter', m + 1) = call'.start
            /\ EndOf(perimeter', m + n) = call'.end
            /\ \A i \in (m + 1)..(m + n - 1) :
                  EndOf(perimeter', i) = StartOf(perimeter', i + 1)
            /\ \A i \in (m + 1)..(m + n) :
                  /\ perimeter'["depth"][i] = call'.depth
                  /\ Mul(N(n), Sub(perimeter'["x_end"][i], perimeter'["x_start"][i]))
                        = Sub(call'.end[1], call'.start[1])
                  /\ Mul(N(n), Sub(perimeter'["y_end"][i], perimeter'["y_start"][i]))
                        = Sub(call'.end[2], call'.start[2])
            /\ \A c \in GeometryColumns : SubSeq(perimeter'[c], 1, m) = perimeter[c]]_vars

\* a second add_perimeter() has appended two patches of depth 2 behind the two
\* of depth 1 that the section held
C28_Witness ==
    /\ call.op = "add_perimeter" /\ nops = 2
    /\ call.start = <<Frac(-5, 2), N(3)>>
    /\ NPatches(perimeter) = 4
    /\ perimeter["depth"] = <<N(1), N(1), N(2), N(2)>>
    /\ EndOf(perimeter, 3) = <<Zero, N(3)>>
    /\ EndOf(perimeter, 4) = call.end


\* C29: after any sequence of add_perimeter, add_opening, rotate and solve
\* calls, the nine geometry columns (x_centroid, y_centroid, x_start, y_start,
\* x_end, y_end, depth, length, area) all have the same length, and index i
\* denotes the same patch in every column: its centroid lies midway between
\* its start and its end and its area is its length times its depth
C29_ColumnsAligned ==
    /\ \A c \in GeometryColumns : Len(perimeter[c]) = NPatches(perimeter)
    /\ \A i \in 1..NPatches(perimeter) : WellFormedPatch(perimeter, i)

\* an opening has deleted some of the patches of a section, and another call
\* was made before or after it
C29_Witness ==
    /\ nops = 2
    /\ args.generate_perimeter
    /\ NPatches(perimeter) > 0
    /\ NPatches(perimeter) < NPatches(AutoGeneratePerimeters(args))
    /\ call.op \in {"add_opening", "rotate", "solve"}


\* C30: the latest results stay keyed by patch index: after an add_opening()
\* or an add_perimeter() that follows a solve(), each result column is empty
\* or holds exactly one row per patch now held, row i being the result of
\* the patch at index i
C30_Original ==
    (call.op \in {"add_opening", "add_perimeter"} /\ applied # NoApplied) =>
        \A c \in ResultColumns :
            \/ Len(perimeter[c]) = 0
            \/ /\ Len(perimeter[c]) = NPatches(perimeter)
               /\ \A i \in 1..NPatches(perimeter) :
                     perimeter["Fz"][i] = Mul(perimeter["v_total"][i], perimeter["area"][i])

====
